---- MODULE Spec2Model ----
(***************************************************************************)
(* Document question-answering service: the RAG engine (chunking, index    *)
(* registry, retrieval, context assembly), the extractive QA engine        *)
(* (answer, answer_from_documents) and the routers that drive them         *)
(* (sessions, upload, ask, delete) with the result cache.                  *)
(***************************************************************************)
EXTENDS Integers, Sequences, FiniteSets, TLC

VARIABLES
    app,        \* app.state after start-up: which optional services exist,
                \* and whether the cache manager found Redis (use_redis)
    sessions,   \* SessionStorage.sessions: session id -> ordered <<[id, text]>>
    indices,    \* RAGEngine.indices: session id -> index record
    cache,      \* CacheManager store: key -> [value, ttl]
    uploads,    \* upload requests suspended at `await file.read()`
    nextId,     \* how many uuid4 values were drawn so far
    stale,      \* history: keys of QA results cached before their session grew
    last        \* the call that just returned, with its inputs and result

vars == <<app, sessions, indices, cache, uploads, nextId, stale, last>>

Min(a, b) == IF a < b THEN a ELSE b
Max(a, b) == IF a > b THEN a ELSE b

(***************************************************************************)
(* Strings.  A Python str is held as its run-length encoding: a sequence   *)
(* of runs [c, n] (n > 0 copies of character c), no two adjacent runs of   *)
(* the same character, so two encodings are equal exactly when the strings *)
(* are.  Every operator below keeps that normal form.                      *)
(***************************************************************************)
EmptyStr == <<>>

\* c * n
Rep(c, n) == IF n > 0 THEN <<[c |-> c, n |-> n]>> ELSE <<>>

\* len(s)
RECURSIVE StrLen(_)
StrLen(s) == IF s = <<>> THEN 0 ELSE Head(s).n + StrLen(Tail(s))

\* s + t
Cat(s, t) ==
    IF s = <<>> THEN t
    ELSE IF t = <<>> THEN s
    ELSE IF s[Len(s)].c = t[1].c
         THEN SubSeq(s, 1, Len(s) - 1)
                \o <<[c |-> t[1].c, n |-> s[Len(s)].n + t[1].n]>>
                \o Tail(t)
         ELSE s \o t

\* the first k characters of s, k >= 0
RECURSIVE Take(_, _)
Take(s, k) ==
    IF k <= 0 \/ s = <<>> THEN <<>>
    ELSE IF Head(s).n <= k THEN <<Head(s)>> \o Take(Tail(s), k - Head(s).n)
    ELSE <<[c |-> Head(s).c, n |-> k]>>

\* s without its first k characters, k >= 0
RECURSIVE Drop(_, _)
Drop(s, k) ==
    IF k <= 0 \/ s = <<>> THEN s
    ELSE IF Head(s).n <= k THEN Drop(Tail(s), k - Head(s).n)
    ELSE <<[c |-> Head(s).c, n |-> Head(s).n - k]>> \o Tail(s)

\* Python's clamping of a slice bound: negative counts from the end
SliceBound(x, len) == IF x < 0 THEN Max(len + x, 0) ELSE Min(x, len)

\* s[i:j]
PySlice(s, i, j) ==
    LET lo == SliceBound(i, StrLen(s))
        hi == SliceBound(j, StrLen(s))
    IN  IF hi <= lo THEN <<>> ELSE Take(Drop(s, lo), hi - lo)

\* s[:k]
PyPrefix(s, k) == PySlice(s, 0, k)

IsSpace(c) == c \in {" ", "\n"}

RECURSIVE LStrip(_)
LStrip(s) == IF s = <<>> THEN s
             ELSE IF IsSpace(Head(s).c) THEN LStrip(Tail(s)) ELSE s

RECURSIVE RStrip(_)
RStrip(s) == IF s = <<>> THEN s
             ELSE IF IsSpace(s[Len(s)].c) THEN RStrip(SubSeq(s, 1, Len(s) - 1))
             ELSE s

\* s.strip()
Strip(s) == RStrip(LStrip(s))

\* sep.join(parts)
RECURSIVE Join(_, _)
Join(sep, parts) ==
    IF parts = <<>> THEN <<>>
    ELSE IF Len(parts) = 1 THEN parts[1]
    ELSE Cat(Cat(parts[1], sep), Join(sep, Tail(parts)))

\* "\n\n"
BlankLine == Rep("\n", 2)

(***************************************************************************)
(* Ordered dicts.  A Python dict {doc_id: text} is the sequence of its     *)
(* items <<[id, text], ...>> in insertion order, ids distinct.             *)
(***************************************************************************)
DictKeys(d) == {d[i].id : i \in 1..Len(d)}
DictValues(d) == [i \in 1..Len(d) |-> d[i].text]

(***************************************************************************)
(* Program constants.                                                      *)
(***************************************************************************)
ChunkSize == 500
ChunkOverlap == 50
MinChunkLen == 50
RagTopK == 10
QATopK == 3
DefaultMaxContextLength == 4000

(***************************************************************************)
(* RAGEngine.create_session_index: chunking.                               *)
(***************************************************************************)
\* the filter with the trimming left out
KeepChunkUntrimmed(chunk) == StrLen(chunk) > MinChunkLen

\* line 61: the filter on a window
KeepChunk(chunk) == StrLen(Strip(chunk)) > MinChunkLen

\* a step that leaves characters between two windows
ChunkStepSkipping == ChunkSize + ChunkOverlap

\* line 59: the step of the window starts
ChunkStep == ChunkSize - ChunkOverlap

\* an end offset that is not clamped to the text
ChunkEndUnclamped(i, text) == i + ChunkSize

\* line 66: the end offset recorded for the window starting at i
ChunkEnd(i, text) == Min(i + ChunkSize, StrLen(text))

\* the windows of one document from offset i on: range(i, len(text), 450)
RECURSIVE ChunkFrom(_, _, _)
ChunkFrom(doc_id, text, i) ==
    IF i >= StrLen(text) THEN <<>>
    ELSE LET chunk == PySlice(text, i, i + ChunkSize)
             rest  == ChunkFrom(doc_id, text, i + ChunkStep)
         IN  IF KeepChunk(chunk)
             THEN <<[chunk |-> chunk,
                     meta  |-> [doc_id |-> doc_id, start |-> i,
                                end |-> ChunkEnd(i, text)]]>> \o rest
             ELSE rest

\* the windows kept over all documents, in dict order
RECURSIVE ChunkAll(_)
ChunkAll(documents) ==
    IF documents = <<>> THEN <<>>
    ELSE ChunkFrom(documents[1].id, documents[1].text, 0) \o ChunkAll(Tail(documents))

(***************************************************************************)
(* The embedding model.  encode() is deterministic in the text; a vector   *)
(* is held as the pair the distances below depend on.                      *)
(***************************************************************************)
Letters == <<"a", "b", "c", "d", "e", "f", "g", "h", "i", "j", "k", "l", "m",
             "n", "o", "p", "q", "r", "s", "t", "u", "v", "w", "x", "y", "z">>
Ord(c) == IF \E k \in 1..Len(Letters) : Letters[k] = c
          THEN CHOOSE k \in 1..Len(Letters) : Letters[k] = c
          ELSE 0

Encode(text) == [h |-> IF text = <<>> THEN 0 ELSE Ord(text[1].c), l |-> StrLen(text)]

Questions == {"q1", "q2", "q3"}
QueryVec(q) == CASE q = "q1" -> 1 [] q = "q2" -> 30 [] OTHER -> 7

\* squared L2 distance of a row to the query vector
Distance(qv, row) == (row.h * qv) % 31

\* IndexFlatL2.search: the k nearest rows, nearest first, as (distance,
\* 0-based position) pairs; rows at equal distance in position order
RECURSIVE Search(_, _, _, _)
Search(rows, qv, k, taken) ==
    LET left == (1..Len(rows)) \ taken
    IN  IF k <= 0 \/ left = {} THEN <<>>
        ELSE LET best == CHOOSE i \in left : \A j \in left :
                            \/ Distance(qv, rows[i]) < Distance(qv, rows[j])
                            \/ /\ Distance(qv, rows[i]) = Distance(qv, rows[j])
                               /\ i <= j
             IN  <<[distance |-> Distance(qv, rows[best]), chunk_idx |-> best - 1]>>
                    \o Search(rows, qv, k - 1, taken \cup {best})

(***************************************************************************)
(* Functions as dictionaries.                                              *)
(***************************************************************************)
EmptyMap == <<>>
\* Python's None, where it is told apart from a value
None == "None"
Put(f, k, v) == [x \in (DOMAIN f) \cup {k} |-> IF x = k THEN v ELSE f[x]]
Del(f, k) == [x \in (DOMAIN f) \ {k} |-> f[x]]

(***************************************************************************)
(* CacheManager.  Keys are the colon-joined parts of _generate_key, held   *)
(* as tuples.                                                              *)
(***************************************************************************)
EmbeddingsTTL == 86400
QAResultTTL == 3600

GenerateKey(prefix, args) == <<prefix>> \o args

\* pickle.dumps / pickle.loads: the bytes stand for the object they rebuild
PickleDumps(value) == [pickle |-> value]
PickleLoads(bytes) == bytes.pickle

\* self.use_redis, fixed when the manager is constructed (lines 32-41)
UseRedis == app.redis

\* what the store keeps for a value: the pickled bytes handed to setex (lines
\* 65-66), or the object itself in the in-memory record (lines 69-73)
Stored(value) == IF UseRedis THEN PickleDumps(value) ELSE value

\* the value a stored entry gives back (lines 92-94, 107)
Loaded(entry) == IF UseRedis THEN PickleLoads(entry.value) ELSE entry.value

\* CacheManager.set; ok = FALSE is the backend error set() swallows
CacheSet(c, key, value, ttl, ok) ==
    IF ok THEN Put(c, key, [value |-> Stored(value), ttl |-> ttl]) ELSE c

\* CacheManager.get; result: [hit, value], hit = FALSE standing for None.  An
\* entry past its TTL is one the store no longer holds: Redis drops it, and the
\* in-memory store drops it in the get that finds it (lines 103-106)
CacheGet(c, key, ok) ==
    IF ~ok \/ key \notin DOMAIN c
    THEN [hit |-> FALSE, value |-> None]
    ELSE [hit |-> TRUE, value |-> Loaded(c[key])]

\* a digest that does not tell the questions apart
Md5Colliding(question) == "md5"

\* hashlib.md5(question.encode()).hexdigest(): one digest per question
Md5(question) ==
    CASE question = "q1" -> "md5(q1)"
      [] question = "q2" -> "md5(q2)"
      [] OTHER -> "md5(q3)"

QAResultKey(session_id, question) ==
    GenerateKey("qa_result", <<session_id, Md5(question)>>)

\* CacheManager.cache_qa_result
CacheQAResult(c, session_id, question, result, ok) ==
    CacheSet(c, QAResultKey(session_id, question), result, QAResultTTL, ok)

\* CacheManager.get_qa_result
GetQAResult(c, session_id, question, ok) ==
    CacheGet(c, QAResultKey(session_id, question), ok)

\* the keys clear_session deletes: those the session id occurs in
KeysOf(c, session_id) ==
    {k \in DOMAIN c : \E i \in 1..Len(k) : k[i] = session_id}

\* CacheManager.clear_session; ok = FALSE is the backend error it swallows
CacheClearSession(c, session_id, ok) ==
    IF ok THEN [k \in (DOMAIN c) \ KeysOf(c, session_id) |-> c[k]] ELSE c

\* CacheManager.cache_embeddings
CacheEmbeddings(c, session_id, embeddings, ok) ==
    CacheSet(c, GenerateKey("embeddings", <<session_id>>), embeddings, EmbeddingsTTL, ok)

(***************************************************************************)
(* RAGEngine.create_session_index.  fail names the step that raises:       *)
(* "encode" (model.encode), "index" (faiss), "tolist" (serialising the     *)
(* embeddings for the cache), "set" (the backend error that                *)
(* CacheManager.set swallows), or "none".                                  *)
(***************************************************************************)
BuildFailures == {"none", "encode", "index", "tolist", "set"}

\* the registry entry of lines 82-88
NewIndex(chunks, documents) ==
    [index      |-> [i \in 1..Len(chunks) |-> Encode(chunks[i].chunk)],
     embeddings |-> [i \in 1..Len(chunks) |-> Encode(chunks[i].chunk)],
     texts      |-> [i \in 1..Len(chunks) |-> chunks[i].chunk],
     metadata   |-> [i \in 1..Len(chunks) |-> chunks[i].meta],
     documents  |-> documents]

\* a build that writes over the entry it finds, part by part, and is seen
\* before it has written the metadata
PublishInPlace(idx, session_id, entry) ==
    Put(idx, session_id,
        IF session_id \in DOMAIN idx
        THEN [entry EXCEPT !.metadata = idx[session_id].metadata]
        ELSE entry)

\* the registry after line 88; a build publishes its entry here
PublishIndex(idx, session_id, entry) == Put(idx, session_id, entry)

\* has_cache: self.cache_manager is set; result: [ret, indices, cache]
CreateSessionIndex(idx, c, has_cache, session_id, documents, fail) ==
    LET chunks == ChunkAll(documents)
        entry  == NewIndex(chunks, documents)
        dict   == [chunks     |-> entry.texts,
                   metadata   |-> entry.metadata,
                   embeddings |-> entry.embeddings]
    IN  IF chunks = <<>> THEN [ret |-> FALSE, indices |-> idx, cache |-> c]
        ELSE IF fail \in {"encode", "index"}
             THEN [ret |-> FALSE, indices |-> idx, cache |-> c]
        ELSE IF ~has_cache
             THEN [ret |-> TRUE, indices |-> PublishIndex(idx, session_id, entry),
                   cache |-> c]
        ELSE IF fail = "tolist"
             THEN [ret |-> FALSE, indices |-> PublishIndex(idx, session_id, entry),
                   cache |-> c]
        ELSE [ret |-> TRUE, indices |-> PublishIndex(idx, session_id, entry),
              cache |-> CacheEmbeddings(c, session_id, dict, fail # "set")]

(***************************************************************************)
(* RAGEngine.retrieve_relevant_chunks.  raises = TRUE: encoding the query  *)
(* or the search raises, which the method turns into [].                   *)
(***************************************************************************)
\* results that carry the metadata found at their rank
RetrievedMispaired(e, query, top_k) ==
    LET hits == Search(e.index, QueryVec(query), Min(top_k, Len(e.index)), {})
    IN  [r \in 1..Len(hits) |->
           [rank       |-> r,
            chunk      |-> e.texts[hits[r].chunk_idx + 1],
            distance   |-> hits[r].distance,
            similarity |-> <<1, 1 + hits[r].distance>>,
            metadata   |-> e.metadata[r]]]

\* lines 133-153: the search over one registry entry and the results built
\* from it; similarity 1 / (1 + distance) is held as the pair <<1, 1 + distance>>
RetrievedFrom(e, query, top_k) ==
    LET hits == Search(e.index, QueryVec(query), Min(top_k, Len(e.index)), {})
    IN  [r \in 1..Len(hits) |->
           [rank       |-> r,
            chunk      |-> e.texts[hits[r].chunk_idx + 1],
            distance   |-> hits[r].distance,
            similarity |-> <<1, 1 + hits[r].distance>>,
            metadata   |-> e.metadata[hits[r].chunk_idx + 1]]]

\* a retrieval that answers from another session's index when the session has none
RetrieveFromAnyIndex(idx, session_id, query, top_k, raises) ==
    IF idx = EmptyMap \/ raises THEN <<>>
    ELSE RetrievedFrom(idx[IF session_id \in DOMAIN idx THEN session_id
                           ELSE CHOOSE s \in DOMAIN idx : TRUE],
                       query, top_k)

RetrieveRelevantChunks(idx, session_id, query, top_k, raises) ==
    IF session_id \notin DOMAIN idx THEN <<>>
    ELSE IF raises THEN <<>>
    ELSE RetrievedFrom(idx[session_id], query, top_k)

(***************************************************************************)
(* RAGEngine.augment_context.                                              *)
(***************************************************************************)
\* sorted(chunks, key = metadata.start): stable insertion
RECURSIVE SortedByStart(_)
InsertByStart(x, s) ==
    LET before == {i \in 1..Len(s) : s[i].metadata.start <= x.metadata.start}
        n      == IF before = {} THEN 0
                  ELSE CHOOSE i \in before : \A j \in before : j <= i
    IN  SubSeq(s, 1, n) \o <<x>> \o SubSeq(s, n + 1, Len(s))
SortedByStart(chunks) ==
    IF chunks = <<>> THEN <<>>
    ELSE InsertByStart(chunks[Len(chunks)],
                       SortedByStart(SubSeq(chunks, 1, Len(chunks) - 1)))

\* the chunks left in similarity-rank order
RankOrder(chunks) == chunks

\* the chunk order the assembler joins in (line 187)
AssemblyOrder(chunks) == SortedByStart(chunks)

\* lines 192-193
Truncate(context, max_context_length) ==
    IF StrLen(context) > max_context_length
    THEN PyPrefix(context, max_context_length)
    ELSE context

\* lines 179-189: the context before truncation, with the chunks it was joined
\* from (used); raised = TRUE when line 183 raises KeyError (no registry entry
\* to take the documents from)
RagContext(idx, session_id, question, raises) ==
    LET chunks == RetrieveRelevantChunks(idx, session_id, question, RagTopK, raises)
    IN  IF chunks = <<>>
        THEN IF session_id \notin DOMAIN idx
             THEN [raised |-> TRUE, used |-> <<>>, context |-> EmptyStr]
             ELSE [raised |-> FALSE, used |-> <<>>,
                   context |-> Join(BlankLine, DictValues(idx[session_id].documents))]
        ELSE LET sorted == AssemblyOrder(chunks)
             IN  [raised |-> FALSE, used |-> sorted,
                  context |-> Join(BlankLine, [i \in 1..Len(sorted) |-> sorted[i].chunk])]

\* result: [ret, raised, used, full]
RagAugmentContext(idx, session_id, question, max_context_length, raises) ==
    LET r == RagContext(idx, session_id, question, raises)
    IN  [ret    |-> IF r.raised THEN EmptyStr
                    ELSE Truncate(r.context, max_context_length),
         raised |-> r.raised,
         used   |-> r.used,
         full   |-> r.context]

\* RAGEngine.clear_session_index
ClearSessionIndex(idx, session_id) ==
    IF session_id \in DOMAIN idx
    THEN [ret |-> TRUE, indices |-> Del(idx, session_id)]
    ELSE [ret |-> FALSE, indices |-> idx]

\* a delete_session that leaves the registry as it is
RagDeleteSessionKeeping(idx, session_id) == idx

\* RAGEngine.delete_session
RagDeleteSession(idx, session_id) == Del(idx, session_id)

(***************************************************************************)
(* QAEngine.  The extraction model (qa_pipeline) is the environment: one   *)
(* call either raises or returns a span of the context it was given with a *)
(* score.  Scores are the model's floats, held as the integers             *)
(* 0..MaxScore.  A fixed message is held as one run whose character is the *)
(* message.                                                                *)
(***************************************************************************)
MaxScore == 2

Lit(message) == <<[c |-> message, n |-> 1]>>
RagSource == "RAG-retrieved-chunks"

\* what one call of the model does: raise, or answer with a span and a score
Outcomes ==
    {[kind |-> "raise", span |-> "none", score |-> 0]}
        \cup {[kind |-> "ok", span |-> "none", score |-> 1]}
        \cup {[kind |-> "ok", span |-> "tail", score |-> sc] : sc \in 0..MaxScore}

\* the pipeline's answer for outcome o on a context: no span, or the last
\* character of what it was given
Pipeline(context, o) ==
    LET n == StrLen(context)
        start == IF o.span = "tail" THEN n - 1 ELSE 0
        end   == IF o.span = "none" THEN 0 ELSE start + 1
    IN  [answer |-> PySlice(context, start, end), score |-> o.score,
         start |-> start, end |-> end]

\* a model call that sees only the first DefaultMaxContextLength characters
ModelInputCut(context) == PyPrefix(context, DefaultMaxContextLength)

\* the context of one model call (line 53)
ModelInput(context) == context

\* a test that takes whitespace for context
NoContextUnstripped(context) == context = EmptyStr

\* line 45: `not context or not context.strip()`
NoContext(context) == context = EmptyStr \/ Strip(context) = EmptyStr

\* QAEngine.answer; result: [res, calls], calls the contexts handed to the model
QAAnswer(question, context, o) ==
    IF NoContext(context)
    THEN [res |-> [answer |-> Lit("No context provided"), score |-> 0,
                   start |-> 0, end |-> 0],
          calls |-> <<>>]
    ELSE IF o.kind = "raise"
    THEN [res |-> [answer |-> Lit("Error processing question"), score |-> 0,
                   start |-> 0, end |-> 0],
          calls |-> <<ModelInput(context)>>]
    ELSE [res |-> Pipeline(ModelInput(context), o), calls |-> <<ModelInput(context)>>]

\* QAEngine.augment_context
QAAugmentContext(has_rag, idx, session_id, question, max_context_length, raises) ==
    IF ~has_rag THEN EmptyStr
    ELSE LET chunks == RetrieveRelevantChunks(idx, session_id, question, QATopK, raises)
         IN  IF chunks = <<>> THEN EmptyStr
             ELSE PyPrefix(Join(BlankLine, [i \in 1..Len(chunks) |-> chunks[i].chunk]),
                           max_context_length)

\* line 149: the part of a document the fallback hands to answer()
FallbackContext(doc_text, max_context_length) ==
    IF StrLen(doc_text) > max_context_length
    THEN PyPrefix(doc_text, max_context_length)
    ELSE doc_text

\* replacement on a tie as well
ReplacesOnTie(score, best_score) == score >= best_score

\* line 151: a later candidate replaces the best one
Replaces(score, best_score) == score > best_score

\* lines 147-157 from document i on; o[i + 1] is the model's outcome on document i
RECURSIVE Fallback(_, _, _, _, _, _, _)
Fallback(question, documents, max_context_length, o, i, best, calls) ==
    IF i > Len(documents) THEN [res |-> best, calls |-> calls]
    ELSE LET r == QAAnswer(question,
                           FallbackContext(documents[i].text, max_context_length),
                           o[i + 1])
         IN  Fallback(question, documents, max_context_length, o, i + 1,
                      IF Replaces(r.res.score, best.score)
                      THEN [answer |-> r.res.answer, score |-> r.res.score,
                            source |-> documents[i].id]
                      ELSE best,
                      calls \o r.calls)

NoAnswer == [answer |-> Lit("No answer found"), score |-> 0, source |-> None]

\* an answer counted only when it carries a positive score
RagAnsweredIfScored(result) == result.score > 0

\* lines 128-137: the RAG attempt answered
RagAnswered(result) == result.answer # EmptyStr

\* QAEngine.answer_from_documents; o[1] is the model's outcome on the augmented
\* context; result: [res, calls, augmented, via_rag]
AnswerFromDocuments(has_rag, idx, question, documents, session_id, max_context_length, raises, o) ==
    LET try_rag   == has_rag /\ session_id # None
        augmented == IF try_rag
                     THEN QAAugmentContext(has_rag, idx, session_id, question,
                                           max_context_length, raises)
                     ELSE EmptyStr
        usable    == try_rag /\ augmented # EmptyStr /\ Strip(augmented) # EmptyStr
        r         == QAAnswer(question, augmented, o[1])
    IN  IF usable /\ RagAnswered(r.res)
        THEN [res |-> [answer |-> r.res.answer, score |-> r.res.score,
                       source |-> RagSource],
              calls |-> r.calls, augmented |-> augmented, via_rag |-> TRUE]
        ELSE LET f == Fallback(question, documents, max_context_length, o, 1,
                               NoAnswer, IF usable THEN r.calls ELSE <<>>)
             IN  [res |-> f.res, calls |-> f.calls, augmented |-> augmented,
                  via_rag |-> FALSE]

(***************************************************************************)
(* Inputs of the RAG engine on its own.                                    *)
(***************************************************************************)
\* n characters of running text from offset p: the letter changes every 450
RECURSIVE Prose(_, _, _)
Prose(first, p, n) ==
    IF n <= 0 THEN <<>>
    ELSE LET room == 450 - (p % 450)
             k    == Min(n, room)
         IN  Cat(Rep(Letters[first + (p \div 450)], k), Prose(first, p + k, n - k))

TEmpty == EmptyStr
TBlank == Rep(" ", 60)
TFifty == Rep("x", 50)
TPadded == Cat(Cat(Rep(" ", 30), Rep("y", 51)), Rep("\n", 30))
TTwo == Prose(13, 0, 520)
TGap == Cat(Cat(Rep("u", 500), Rep(" ", 450)), Rep("v", 100))
TMany == Prose(1, 0, 5000)

Doc(id, text) == [id |-> id, text |-> text]

RagDocMaps ==
    { <<>>,
      <<Doc("d1", TEmpty)>>,
      <<Doc("d1", TBlank), Doc("d2", TFifty)>>,
      <<Doc("d1", TPadded)>>,
      <<Doc("d1", TTwo)>>,
      <<Doc("d1", TTwo), Doc("d2", TGap)>>,
      <<Doc("d1", TMany)>> }

RagSessions == {"s1", "s2"}
BuiltSessions == {"s1", "s2"}
ContextLengths == {-1, 0, 100, DefaultMaxContextLength}
TopKs == {QATopK, RagTopK}

\* no call has returned since the last one was taken note of
NoOp == [op |-> "none"]

\* the caller takes the result; the next call can be made
Idle ==
    /\ last # NoOp
    /\ last' = NoOp
    /\ UNCHANGED <<app, sessions, indices, cache, uploads, nextId, stale>>

InitRag ==
    /\ app \in {[rag |-> TRUE, cache |-> c, ner |-> FALSE, redis |-> FALSE] :
                    c \in BOOLEAN}
    /\ sessions = EmptyMap
    /\ indices = EmptyMap
    /\ cache = EmptyMap
    /\ uploads = EmptyMap
    /\ nextId = 0
    /\ stale = {}
    /\ last = NoOp

RCreateSessionIndex ==
    /\ last = NoOp
    /\ \E s \in BuiltSessions, docs \in RagDocMaps, fail \in BuildFailures :
        LET r == CreateSessionIndex(indices, cache, app.cache, s, docs, fail)
        IN  /\ indices' = r.indices
            /\ cache' = r.cache
            /\ last' = [op |-> "create_session_index", session_id |-> s,
                        documents |-> docs, fail |-> fail, ret |-> r.ret]
            /\ UNCHANGED <<app, sessions, uploads, nextId, stale>>

RRetrieve ==
    /\ last = NoOp
    /\ \E s \in RagSessions, q \in Questions, k \in TopKs, raises \in BOOLEAN :
        /\ last' = [op |-> "retrieve_relevant_chunks", session_id |-> s,
                    query |-> q, top_k |-> k, raises |-> raises,
                    ret |-> RetrieveRelevantChunks(indices, s, q, k, raises)]
        /\ UNCHANGED <<app, sessions, indices, cache, uploads, nextId, stale>>

RAugmentContext ==
    /\ last = NoOp
    /\ \E s \in RagSessions, q \in Questions, mcl \in ContextLengths, raises \in BOOLEAN :
        /\ LET r == RagAugmentContext(indices, s, q, mcl, raises)
           IN  last' = [op |-> "augment_context", session_id |-> s, question |-> q,
                        max_context_length |-> mcl, raises |-> raises,
                        used |-> r.used, full |-> r.full, raised |-> r.raised,
                        ret |-> r.ret]
        /\ UNCHANGED <<app, sessions, indices, cache, uploads, nextId, stale>>

RClearSessionIndex ==
    /\ last = NoOp
    /\ \E s \in RagSessions :
        LET r == ClearSessionIndex(indices, s)
        IN  /\ indices' = r.indices
            /\ last' = [op |-> "clear_session_index", session_id |-> s, ret |-> r.ret]
            /\ UNCHANGED <<app, sessions, cache, uploads, nextId, stale>>

RDeleteSession ==
    /\ last = NoOp
    /\ \E s \in RagSessions :
        /\ indices' = RagDeleteSession(indices, s)
        /\ last' = [op |-> "delete_session", session_id |-> s]
        /\ UNCHANGED <<app, sessions, cache, uploads, nextId, stale>>

NextRag ==
    \/ RCreateSessionIndex
    \/ RRetrieve
    \/ RAugmentContext
    \/ RClearSessionIndex
    \/ RDeleteSession
    \/ Idle

SpecRag == InitRag /\ [][NextRag]_vars

(***************************************************************************)
(* The QA engine on its own (SpecQA): a QAEngine over a RAGEngine that has *)
(* no cache manager, or over none.                                         *)
(***************************************************************************)
TShort == Rep("s", 60)

QADocMaps ==
    { <<>>,
      <<Doc("d1", TEmpty)>>,
      <<Doc("d1", TShort)>>,
      <<Doc("d1", TTwo), Doc("d2", TPadded)>>,
      <<Doc("d1", TBlank), Doc("d2", TShort), Doc("d3", TTwo)>>,
      <<Doc("d1", TMany)>> }

QAContexts == {TEmpty, TBlank, TShort, TMany}
QASessionArgs == {"s1", "s2", None}

InitQA ==
    /\ app \in {[rag |-> r, cache |-> FALSE, ner |-> FALSE, redis |-> FALSE] :
                    r \in BOOLEAN}
    /\ sessions = EmptyMap
    /\ indices = EmptyMap
    /\ cache = EmptyMap
    /\ uploads = EmptyMap
    /\ nextId = 0
    /\ stale = {}
    /\ last = NoOp

\* the RAG engine indexes session s1
QIndex ==
    /\ last = NoOp
    /\ \E docs \in QADocMaps :
        LET r == CreateSessionIndex(indices, cache, app.cache, "s1", docs, "none")
        IN  /\ app.rag
            /\ indices' = r.indices
            /\ cache' = r.cache
            /\ last' = [op |-> "create_session_index", session_id |-> "s1",
                        documents |-> docs, fail |-> "none", ret |-> r.ret]
            /\ UNCHANGED <<app, sessions, uploads, nextId, stale>>

QDrop ==
    /\ last = NoOp
    /\ app.rag
    /\ indices' = RagDeleteSession(indices, "s1")
    /\ last' = [op |-> "delete_session", session_id |-> "s1"]
    /\ UNCHANGED <<app, sessions, cache, uploads, nextId, stale>>

QAnswer ==
    /\ last = NoOp
    /\ \E q \in Questions, context \in QAContexts, o \in Outcomes :
        LET r == QAAnswer(q, context, o)
        IN  /\ last' = [op |-> "answer", question |-> q, context |-> context,
                        o |-> o, res |-> r.res, calls |-> r.calls]
            /\ UNCHANGED <<app, sessions, indices, cache, uploads, nextId, stale>>

QAugmentContext ==
    /\ last = NoOp
    /\ \E s \in {"s1", "s2"}, q \in Questions, mcl \in ContextLengths, raises \in BOOLEAN :
        /\ last' = [op |-> "qa_augment_context", session_id |-> s, question |-> q,
                    max_context_length |-> mcl, raises |-> raises,
                    ret |-> QAAugmentContext(app.rag, indices, s, q, mcl, raises)]
        /\ UNCHANGED <<app, sessions, indices, cache, uploads, nextId, stale>>

QAnswerFromDocuments ==
    /\ last = NoOp
    /\ \E q \in Questions, docs \in QADocMaps, s \in QASessionArgs,
       mcl \in ContextLengths, raises \in BOOLEAN :
        \E o \in [1..(Len(docs) + 1) -> Outcomes] :
            LET r == AnswerFromDocuments(app.rag, indices, q, docs, s, mcl, raises, o)
            IN  /\ last' = [op |-> "answer_from_documents", question |-> q,
                            documents |-> docs, session_id |-> s,
                            max_context_length |-> mcl, raises |-> raises, o |-> o,
                            res |-> r.res, calls |-> r.calls,
                            augmented |-> r.augmented, via_rag |-> r.via_rag]
                /\ UNCHANGED <<app, sessions, indices, cache, uploads, nextId, stale>>

NextQA ==
    \/ QIndex
    \/ QDrop
    \/ QAnswer
    \/ QAugmentContext
    \/ QAnswerFromDocuments
    \/ Idle

SpecQA == InitQA /\ [][NextQA]_vars

(***************************************************************************)
(* The service: session storage, the upload, ask and delete handlers, and  *)
(* the result cache, over the engines above.                               *)
(***************************************************************************)
MaxUuids == 3
MaxInFlight == 1
MaxFiles == 1

\* the values uuid.uuid4() returns, in the order drawn
Uuids == <<"u1", "u2", "u3", "u4", "u5", "u6", "u7", "u8">>
Uuid4(n) == Uuids[n + 1]

\* an id no session or document has
MissingId == "missing"

\* SessionStorage.create_session, with the id drawn for it
StorageCreateSession(ss, session_id) == Put(ss, session_id, <<>>)

\* a check that finds every session
SessionExistsAny(ss, session_id) == TRUE

\* SessionStorage.session_exists
SessionExists(ss, session_id) == session_id \in DOMAIN ss

\* where doc_id sits in an ordered mapping, 0 when absent
Position(docs, doc_id) ==
    IF \E i \in 1..Len(docs) : docs[i].id = doc_id
    THEN CHOOSE i \in 1..Len(docs) : docs[i].id = doc_id
    ELSE 0

\* an add_document that makes the session it does not find
AddDocumentCreating(ss, session_id, doc_id, text) ==
    [ret |-> TRUE,
     sessions |-> Put(ss, session_id,
                      IF Position(IF session_id \in DOMAIN ss THEN ss[session_id]
                                  ELSE <<>>, doc_id) = 0
                      THEN Append(IF session_id \in DOMAIN ss THEN ss[session_id]
                                  ELSE <<>>, Doc(doc_id, text))
                      ELSE [ss[session_id] EXCEPT
                                ![Position(ss[session_id], doc_id)] = Doc(doc_id, text)])]

\* SessionStorage.add_document; result: [ret, sessions]
AddDocument(ss, session_id, doc_id, text) ==
    IF session_id \notin DOMAIN ss THEN [ret |-> FALSE, sessions |-> ss]
    ELSE LET docs == ss[session_id]
             at   == Position(docs, doc_id)
         IN  [ret |-> TRUE,
              sessions |-> Put(ss, session_id,
                               IF at = 0 THEN Append(docs, Doc(doc_id, text))
                               ELSE [docs EXCEPT ![at] = Doc(doc_id, text)])]

\* SessionStorage.get_all_texts; <<>> stands for None as well as for {}, which
\* every caller treats alike (`if not documents`)
GetAllTexts(ss, session_id) ==
    IF session_id \notin DOMAIN ss THEN <<>>
    ELSE [i \in 1..Len(ss[session_id]) |->
            Doc(ss[session_id][i].id, ss[session_id][i].text)]

\* SessionStorage.get_documents of a session that exists: the stored records
GetDocuments(ss, session_id) ==
    IF session_id \notin DOMAIN ss THEN <<>> ELSE ss[session_id]

\* doc.get("ner_status", "pending") and doc.get("entities") of
\* get_session_info: a key the stored record lacks reads as the default
NerStatusOf(doc) == IF "ner_status" \in DOMAIN doc THEN doc.ner_status ELSE "pending"
EntitiesOf(doc) == IF "entities" \in DOMAIN doc THEN doc.entities ELSE None

\* SessionStorage.set_ner_status: False when the session or the document is
\* not there, otherwise the status is written; result: [ret, sessions]
SetNerStatus(ss, session_id, doc_id, status) ==
    IF Position(GetDocuments(ss, session_id), doc_id) = 0
    THEN [ret |-> FALSE, sessions |-> ss]
    ELSE LET at == Position(ss[session_id], doc_id)
         IN  [ret |-> TRUE,
              sessions |-> [ss EXCEPT ![session_id][at] =
                                [ner_status |-> status] @@ ss[session_id][at]]]

\* SessionStorage.set_entities: stores the entities and sets the status to
\* "completed"; result: [ret, sessions]
SetEntities(ss, session_id, doc_id, entities) ==
    IF Position(GetDocuments(ss, session_id), doc_id) = 0
    THEN [ret |-> FALSE, sessions |-> ss]
    ELSE LET at == Position(ss[session_id], doc_id)
         IN  [ret |-> TRUE,
              sessions |-> [ss EXCEPT ![session_id][at] =
                                [ner_status |-> "completed", entities |-> entities]
                                    @@ ss[session_id][at]]]

\* ner_service.highlight_entities(text, format_type="dict")
HighlightEntities(text) == [text |-> text, entities |-> "entities"]

\* what a task leaves: the sessions after its first set_ner_status (line 36)
\* and at its end
NerRun(started, sessions_) == [started |-> started, sessions |-> sessions_]

\* a task that lets the failure of the NER service through: the document is
\* left at "processing"
ProcessNerUncaught(ss, session_id, doc_id, text, ner_ok) ==
    LET started == SetNerStatus(ss, session_id, doc_id, "processing").sessions
    IN  IF text = EmptyStr
        THEN NerRun(started,
                    SetNerStatus(started, session_id, doc_id, "completed").sessions)
        ELSE IF ner_ok
        THEN NerRun(started,
                    SetEntities(started, session_id, doc_id,
                                HighlightEntities(text)).sessions)
        ELSE NerRun(started, started)

\* process_ner_background: the task runs from its first line to its last
\* without yielding; ner_ok = FALSE is the NER service raising.  A text longer
\* than 50000 characters is processed in pieces whose entities are put
\* together again under the whole text.
ProcessNerBackground(ss, session_id, doc_id, text, ner_ok) ==
    LET started == SetNerStatus(ss, session_id, doc_id, "processing").sessions
    IN  IF text = EmptyStr
        THEN NerRun(started,
                    SetNerStatus(started, session_id, doc_id, "completed").sessions)
        ELSE IF ner_ok
        THEN NerRun(started,
                    SetEntities(started, session_id, doc_id,
                                HighlightEntities(text)).sessions)
        ELSE NerRun(started,
                    SetNerStatus(started, session_id, doc_id, "failed").sessions)

\* the status get_session_info would report for a document, "gone" when the
\* session or the document is not there
ReportedStatus(ss, session_id, doc_id) ==
    IF Position(GetDocuments(ss, session_id), doc_id) = 0 THEN "gone"
    ELSE NerStatusOf(ss[session_id][Position(ss[session_id], doc_id)])

\* BackgroundTasks.__call__: the tasks of one request run one after the other,
\* none of them yielding; result: [sessions, seen], seen holding for each task
\* the status of its document before it, after its line 36 and at its end
\* (each run is bound as a value before the next task starts from it)
RECURSIVE RunTasks(_, _, _, _)
RunTasks(ss, tasks, ner_ok, seen) ==
    IF tasks = <<>> THEN [sessions |-> ss, seen |-> seen]
    ELSE CHOOSE out \in
            {RunTasks(r.sessions, Tail(tasks), Tail(ner_ok),
                      Append(seen,
                             <<ReportedStatus(ss, t.session_id, t.doc_id),
                               ReportedStatus(r.started, t.session_id, t.doc_id),
                               ReportedStatus(r.sessions, t.session_id, t.doc_id)>>)) :
                t \in {Head(tasks)},
                r \in {ProcessNerBackground(ss, Head(tasks).session_id,
                                            Head(tasks).doc_id, Head(tasks).text,
                                            Head(ner_ok))}} : TRUE

\* SessionStorage.get_document_text; EmptyStr stands for None as well as for "",
\* which the caller treats alike (`if not text`)
GetDocumentText(ss, session_id, doc_id) ==
    LET docs == GetAllTexts(ss, session_id)
    IN  IF Position(docs, doc_id) = 0 THEN EmptyStr
        ELSE docs[Position(docs, doc_id)].text

\* SessionStorage.clear_session
StorageClearSession(ss, session_id) == Del(ss, session_id)

\* the uploaded files: extension not allowed, extraction raises, or a text
SysTexts == {TFifty, TShort}
Files ==
    {[kind |-> "unsupported", text |-> EmptyStr], [kind |-> "broken", text |-> EmptyStr]}
        \cup {[kind |-> "text", text |-> t] : t \in SysTexts}
Batches == UNION {[1..n -> Files] : n \in 1..MaxFiles}

SysQuestions == {"q1"}
SysContextLengths == {50, DefaultMaxContextLength}
\* the model finds a span with score 1, or raises
SysOutcomes == {o \in Outcomes : (o.span = "tail" /\ o.score = 1) \/ o.kind = "raise"}

\* lines 133-141: files with an extension that is not allowed are passed over
RECURSIVE SkipUnsupported(_)
SkipUnsupported(files) ==
    IF files = <<>> THEN <<>>
    ELSE IF Head(files).kind = "unsupported" THEN SkipUnsupported(Tail(files))
    ELSE files

Successes(uploaded_docs) ==
    {i \in 1..Len(uploaded_docs) : uploaded_docs[i].status = "success"}

\* lines 232-247: the index rebuild and the response; result:
\* [indices, cache, response]
UploadFinish(a, ss, idx, c, session_id, uploaded_docs, fail) ==
    LET documents == GetAllTexts(ss, session_id)
        build == IF Successes(uploaded_docs) # {} /\ documents # <<>> /\ a.rag
                 THEN CreateSessionIndex(idx, c, a.cache, session_id, documents, fail)
                 ELSE [ret |-> FALSE, indices |-> idx, cache |-> c]
    IN  [indices |-> build.indices, cache |-> build.cache,
         response |-> [op |-> "upload", status |-> 200, session_id |-> session_id,
                       documents_uploaded |-> Cardinality(Successes(uploaded_docs)),
                       documents |-> uploaded_docs]]

\* the QA results the cache holds for a session
QAKeys(c, session_id) ==
    {k \in KeysOf(c, session_id) : k[1] \in {"qa_result", "qa_detailed"}}

\* POST /session
CreateSession ==
    /\ last = NoOp
    /\ nextId < MaxUuids
    /\ sessions' = StorageCreateSession(sessions, Uuid4(nextId))
    /\ nextId' = nextId + 1
    /\ last' = [op |-> "create_session", status |-> 200, session_id |-> Uuid4(nextId)]
    /\ UNCHANGED <<app, indices, cache, uploads, stale>>

FreeSlots == (1..MaxInFlight) \ DOMAIN uploads

\* POST /upload up to its first `await file.read()`, or to its end when no file
\* is read
UploadBeginWith(batches) ==
    /\ last = NoOp
    /\ \E session_id \in (DOMAIN sessions) \cup {None, MissingId}, files \in batches :
        IF session_id # None /\ ~SessionExists(sessions, session_id)
        THEN /\ last' = [op |-> "upload", status |-> 404, session_id |-> session_id]
             /\ UNCHANGED <<app, sessions, indices, cache, uploads, nextId, stale>>
        ELSE /\ session_id = None => nextId < MaxUuids
             /\ LET sid  == IF session_id = None THEN Uuid4(nextId) ELSE session_id
                    ss   == IF session_id = None
                            THEN StorageCreateSession(sessions, sid) ELSE sessions
                    rest == SkipUnsupported(files)
                IN  /\ sessions' = ss
                    /\ nextId' = IF session_id = None THEN nextId + 1 ELSE nextId
                    /\ IF rest = <<>>
                       THEN /\ last' = UploadFinish(app, ss, indices, cache, sid,
                                                    <<>>, "none").response
                            /\ UNCHANGED uploads
                       ELSE /\ FreeSlots # {}
                            /\ uploads' = Put(uploads, CHOOSE u \in FreeSlots : TRUE,
                                              [session_id |-> sid, files |-> rest,
                                               uploaded_docs |-> <<>>,
                                               tasks |-> <<>>])
                            /\ UNCHANGED last
             /\ UNCHANGED <<app, indices, cache, stale>>

UploadBegin == UploadBeginWith(Batches)

\* POST /upload from the return of one `await file.read()` to the next, or to
\* the response
UploadResume ==
    /\ last = NoOp
    /\ \E u \in {v \in DOMAIN uploads : uploads[v].files # <<>>},
          fail \in BuildFailures :
        LET up     == uploads[u]
            file   == Head(up.files)
            stored == file.kind = "text"
            doc_id == IF stored THEN Uuid4(nextId) ELSE None
            add    == IF stored
                      THEN AddDocument(sessions, up.session_id, doc_id, file.text)
                      ELSE [ret |-> FALSE, sessions |-> sessions]
            docs   == Append(up.uploaded_docs,
                             [doc_id |-> doc_id,
                              status |-> IF stored THEN "success" ELSE "error"])
            rest   == SkipUnsupported(Tail(up.files))
            tasks  == IF stored /\ app.ner
                      THEN Append(up.tasks, [session_id |-> up.session_id,
                                             doc_id |-> doc_id, text |-> file.text])
                      ELSE up.tasks
            f      == UploadFinish(app, add.sessions, indices, cache, up.session_id,
                                   docs, fail)
        IN  /\ stored => nextId < MaxUuids
            /\ nextId' = IF stored THEN nextId + 1 ELSE nextId
            /\ sessions' = add.sessions
            /\ stale' = IF add.ret THEN stale \cup QAKeys(cache, up.session_id)
                        ELSE stale
            /\ IF rest # <<>>
               THEN /\ uploads' = Put(uploads, u, [session_id |-> up.session_id,
                                                   files |-> rest,
                                                   uploaded_docs |-> docs,
                                                   tasks |-> tasks])
                    /\ UNCHANGED <<indices, cache, last>>
               ELSE /\ uploads' = IF tasks = <<>> THEN Del(uploads, u)
                                  ELSE Put(uploads, u, [session_id |-> up.session_id,
                                                        files |-> <<>>,
                                                        uploaded_docs |-> docs,
                                                        tasks |-> tasks])
                    /\ indices' = f.indices
                    /\ cache' = f.cache
                    /\ last' = f.response
            /\ UNCHANGED app

DetailedTTL == 3600

\* the entities if the failure of the NER service were not caught
EntitiesUnguarded(a, highlight, ner_ok) ==
    IF highlight /\ a.ner THEN "entities" ELSE None

\* lines 103-123: the entities attached to an answer; ner_ok = FALSE is the NER
\* service raising
Entities(a, highlight, ner_ok) ==
    IF highlight /\ a.ner /\ ner_ok THEN "entities" ELSE None

\* lines 125-131
ResponseData(question, answer, score, source, entities) ==
    [question |-> question, answer |-> answer, confidence |-> score,
     source_doc |-> source, entities |-> entities]

\* AnswerResponse(**data): the model declares source_doc as str, so a None
\* handed to it fails validation and the request ends in a server error
AnswerStatus(data) == IF data.source_doc = None THEN 500 ELSE 200

\* the response of POST /ask
AskResponse(status, session_id, question, doc_id, hit, body) ==
    [op |-> "ask", status |-> status, session_id |-> session_id, doc_id |-> doc_id,
     key |-> QAResultKey(session_id, question), hit |-> hit, body |-> body]

\* a response that carries no answer
Refused(status, session_id, question, doc_id) ==
    AskResponse(status, session_id, question, doc_id, FALSE,
                ResponseData(question, None, 0, None, None))

\* lines 125-137: the response is cached for a whole-corpus question, and
\* returned
Answered(c, session_id, question, doc_id, data, set_ok) ==
    [cache |-> IF doc_id = None
               THEN CacheQAResult(c, session_id, question, data, set_ok) ELSE c,
     wrote |-> doc_id = None /\ set_ok,
     response |-> AskResponse(AnswerStatus(data), session_id, question, doc_id,
                              FALSE, data)]

\* lines 125-131 for the result of answer (single document: no source) or of
\* answer_from_documents
ResponseOf(question, result, source, entities) ==
    ResponseData(question, result.answer, result.score, source, entities)

\* lines 73-79: the cached response is returned
Served(c, session_id, question, doc_id, got) ==
    [cache |-> c, wrote |-> FALSE,
     response |-> AskResponse(AnswerStatus(got.value), session_id, question, doc_id,
                              TRUE, got.value)]

\* lines 82-89: the question put to one document
AskDocument(a, c, session_id, question, doc_id, highlight, ner_ok, o, text) ==
    IF text = EmptyStr
    THEN [cache |-> c, wrote |-> FALSE,
          response |-> Refused(404, session_id, question, doc_id)]
    ELSE Answered(c, session_id, question, doc_id,
                  ResponseOf(question, QAAnswer(question, text, o[1]).res,
                             "Unknown", Entities(a, highlight, ner_ok)),
                  FALSE)

\* lines 125-131 for a result of answer_from_documents
ResponseFrom(question, result, entities) ==
    ResponseOf(question, result, result.source, entities)

\* lines 90-101: the question put to the whole session
AskCorpus(a, idx, c, session_id, question, max_context_length, highlight, set_ok, raises, ner_ok, o, documents) ==
    IF documents = <<>>
    THEN [cache |-> c, wrote |-> FALSE,
          response |-> Refused(400, session_id, question, None)]
    ELSE Answered(c, session_id, question, None,
                  ResponseFrom(question,
                               AnswerFromDocuments(a.rag, idx, question, documents,
                                                   session_id, max_context_length,
                                                   raises, o).res,
                               Entities(a, highlight, ner_ok)),
                  set_ok)

\* POST /ask after the session check; result: [cache, wrote, response]
AskQuestion(a, ss, idx, c, session_id, question, doc_id, max_context_length, highlight, get_ok, set_ok, raises, ner_ok, o) ==
    IF doc_id # None
    THEN AskDocument(a, c, session_id, question, doc_id, highlight, ner_ok, o,
                     GetDocumentText(ss, session_id, doc_id))
    ELSE IF ~a.cache
    THEN [cache |-> c, wrote |-> FALSE,
          response |-> Refused(500, session_id, question, doc_id)]
    ELSE IF GetQAResult(c, session_id, question, get_ok).hit
    THEN Served(c, session_id, question, doc_id,
                GetQAResult(c, session_id, question, get_ok))
    ELSE AskCorpus(a, idx, c, session_id, question, max_context_length, highlight,
                   set_ok, raises, ner_ok, o, GetAllTexts(ss, session_id))

\* what a handler that returned r leaves behind
Returns(r) ==
    /\ cache' = r.cache
    /\ stale' = (stale \cap DOMAIN r.cache)
                    \ (IF r.wrote THEN {r.response.key} ELSE {})
    /\ last' = r.response

\* the environment of one request: which backend calls fail, and what the
\* extraction model returns on each of its calls
Flags(possible) == IF possible THEN BOOLEAN ELSE {TRUE}

\* POST /ask
Ask ==
    /\ last = NoOp
    /\ \E session_id \in (DOMAIN sessions) \cup {MissingId} :
        IF ~SessionExists(sessions, session_id)
        THEN /\ last' = [op |-> "ask", status |-> 404, session_id |-> session_id]
             /\ UNCHANGED <<app, sessions, indices, cache, uploads, nextId, stale>>
        ELSE \E question \in SysQuestions, max_context_length \in SysContextLengths,
                doc_id \in {None, MissingId}
                              \cup DictKeys(GetAllTexts(sessions, session_id)),
                highlight \in Flags(app.ner), get_ok \in Flags(app.cache),
                set_ok \in Flags(app.cache), ner_ok \in Flags(app.ner),
                raises \in {~ok : ok \in Flags(app.rag)},
                o \in [1..(Len(GetAllTexts(sessions, session_id)) + 1) -> SysOutcomes] :
                /\ Returns(AskQuestion(app, sessions, indices, cache, session_id,
                                       question, doc_id, max_context_length,
                                       highlight, get_ok, set_ok, raises, ner_ok, o))
                /\ UNCHANGED <<app, sessions, indices, uploads, nextId>>

\* answers.sort(key=confidence, reverse=True): stable, highest first
RECURSIVE InsertByConfidence(_, _)
InsertByConfidence(x, s) ==
    IF s = <<>> THEN <<x>>
    ELSE IF Head(s).confidence < x.confidence THEN <<x>> \o s
    ELSE <<Head(s)>> \o InsertByConfidence(x, Tail(s))

RECURSIVE SortByConfidence(_)
SortByConfidence(answers) ==
    IF answers = <<>> THEN <<>>
    ELSE InsertByConfidence(Head(answers), SortByConfidence(Tail(answers)))

DetailedKey(session_id, question) == <<"qa_detailed", session_id, Md5(question)>>

\* POST /ask-detailed after the session check; result: [cache, wrote, response]
AskQuestionDetailed(a, ss, c, session_id, question, highlight, get_ok, set_ok, ner_ok, o) ==
    LET key == DetailedKey(session_id, question)
        got == IF a.cache THEN CacheGet(c, key, get_ok)
               ELSE [hit |-> FALSE, value |-> None]
        documents == GetAllTexts(ss, session_id)
        answers ==
            [i \in 1..Len(documents) |->
                LET r == QAAnswer(question, documents[i].text, o[i]).res
                IN  [doc_id |-> documents[i].id, answer |-> r.answer,
                     confidence |-> r.score,
                     entities |-> Entities(a, highlight, ner_ok)]]
        sorted == SortByConfidence(answers)
        data == [question |-> question, answers |-> sorted, best_answer |-> sorted[1]]
        re(status, hit, body) ==
            [op |-> "ask_detailed", status |-> status, session_id |-> session_id,
             key |-> key, hit |-> hit, body |-> body]
    IN  IF got.hit
        THEN [cache |-> c, wrote |-> FALSE,
              response |-> re(200, TRUE, got.value)]
        ELSE IF documents = <<>>
        THEN [cache |-> c, wrote |-> FALSE,
              response |-> re(400, FALSE, None)]
        ELSE [cache |-> IF a.cache
                        THEN CacheSet(c, key, data, DetailedTTL, set_ok)
                        ELSE c,
              wrote |-> a.cache /\ set_ok,
              response |-> re(200, FALSE, data)]

\* POST /ask-detailed
AskDetailed ==
    /\ last = NoOp
    /\ \E session_id \in (DOMAIN sessions) \cup {MissingId} :
        IF ~SessionExists(sessions, session_id)
        THEN /\ last' = [op |-> "ask_detailed", status |-> 404,
                         session_id |-> session_id]
             /\ UNCHANGED <<app, sessions, indices, cache, uploads, nextId, stale>>
        ELSE \E question \in SysQuestions, highlight \in Flags(app.ner),
                get_ok \in Flags(app.cache), set_ok \in Flags(app.cache),
                ner_ok \in Flags(app.ner),
                o \in [1..Len(GetAllTexts(sessions, session_id)) -> SysOutcomes] :
                /\ Returns(AskQuestionDetailed(app, sessions, cache, session_id,
                                               question, highlight, get_ok, set_ok,
                                               ner_ok, o))
                /\ UNCHANGED <<app, sessions, indices, uploads, nextId>>

\* DELETE /session/{session_id}
DeleteSession ==
    /\ last = NoOp
    /\ \E session_id \in (DOMAIN sessions) \cup {MissingId},
          clear_ok \in Flags(app.redis) :
        IF ~SessionExists(sessions, session_id)
        THEN /\ last' = [op |-> "delete_session", status |-> 404,
                         session_id |-> session_id]
             /\ UNCHANGED <<app, sessions, indices, cache, uploads, nextId, stale>>
        ELSE LET c == IF app.cache THEN CacheClearSession(cache, session_id, clear_ok)
                      ELSE cache
             IN  /\ indices' = IF app.rag THEN RagDeleteSession(indices, session_id)
                               ELSE indices
                 /\ cache' = c
                 /\ stale' = stale \cap DOMAIN c
                 /\ sessions' = StorageClearSession(sessions, session_id)
                 /\ last' = [op |-> "delete_session", status |-> 200,
                             session_id |-> session_id]
                 /\ UNCHANGED <<app, uploads, nextId>>

\* time passes beyond the TTL of one cache entry
CacheExpire ==
    /\ last = NoOp
    /\ \E k \in DOMAIN cache :
        /\ cache' = Del(cache, k)
        /\ stale' = stale \ {k}
    /\ UNCHANGED <<app, sessions, indices, uploads, nextId, last>>

\* RAGEngine.augment_context called for a session of the service
AugmentContext ==
    /\ last = NoOp
    /\ app.rag
    /\ \E session_id \in DOMAIN sessions, question \in SysQuestions,
          max_context_length \in SysContextLengths, raises \in BOOLEAN :
        LET r == RagAugmentContext(indices, session_id, question,
                                   max_context_length, raises)
        IN  last' = [op |-> "augment_context", session_id |-> session_id,
                     question |-> question,
                     max_context_length |-> max_context_length, raises |-> raises,
                     used |-> r.used, ret |-> r.ret]
    /\ UNCHANGED <<app, sessions, indices, cache, uploads, nextId, stale>>

\* start-up: each optional service is there or failed to load (the NER service
\* is taken to have failed); a cache manager keeps its entries in Redis or, when
\* Redis does not answer, in its own dictionary
Init ==
    /\ app \in {a \in [rag : BOOLEAN, cache : BOOLEAN, ner : {FALSE}, redis : BOOLEAN] :
                    a.redis => a.cache}
    /\ sessions = EmptyMap
    /\ indices = EmptyMap
    /\ cache = EmptyMap
    /\ uploads = EmptyMap
    /\ nextId = 0
    /\ stale = {}
    /\ last = NoOp

Next ==
    \/ CreateSession
    \/ UploadBegin
    \/ UploadResume
    \/ Ask
    \/ AskDetailed
    \/ DeleteSession
    \/ CacheExpire
    \/ AugmentContext
    \/ Idle

Spec == Init /\ [][Next]_vars

(***************************************************************************)
(* Uploads with the NER service loaded (SpecNer): each stored file gets a  *)
(* background task, which runs after the response of its upload has been   *)
(* sent; sessions are read and deleted in between.                         *)
(***************************************************************************)
MaxNerFiles == 2

NerFiles ==
    {[kind |-> "broken", text |-> EmptyStr], [kind |-> "text", text |-> TEmpty],
     [kind |-> "text", text |-> TShort]}
NerBatches == UNION {[1..n -> NerFiles] : n \in 1..MaxNerFiles}

InitNer ==
    /\ app = [rag |-> FALSE, cache |-> FALSE, ner |-> TRUE, redis |-> FALSE]
    /\ sessions = EmptyMap
    /\ indices = EmptyMap
    /\ cache = EmptyMap
    /\ uploads = EmptyMap
    /\ nextId = 0
    /\ stale = {}
    /\ last = NoOp

NUploadBegin == UploadBeginWith(NerBatches)

\* the background tasks of an upload whose response has been sent
RunBackgroundTasks ==
    \E u \in {v \in DOMAIN uploads : uploads[v].files = <<>>} :
    \E ner_ok \in [1..Len(uploads[u].tasks) -> BOOLEAN] :
    \E run \in {RunTasks(sessions, uploads[u].tasks, ner_ok, <<>>)} :
        /\ sessions' = run.sessions
        /\ uploads' = Del(uploads, u)
        /\ last' = [op |-> "background_tasks", tasks |-> uploads[u].tasks,
                    ner_ok |-> ner_ok, seen |-> run.seen]
        /\ UNCHANGED <<app, indices, cache, nextId, stale>>

\* GET /session/{session_id}
GetSessionInfo ==
    /\ last = NoOp
    /\ \E session_id \in (DOMAIN sessions) \cup {MissingId} :
        last' = IF ~SessionExists(sessions, session_id)
                THEN [op |-> "get_session", status |-> 404, session_id |-> session_id]
                ELSE [op |-> "get_session", status |-> 200, session_id |-> session_id,
                      documents |->
                          [i \in 1..Len(GetDocuments(sessions, session_id)) |->
                              [doc_id |-> sessions[session_id][i].id,
                               ner_status |-> NerStatusOf(sessions[session_id][i]),
                               entities |-> EntitiesOf(sessions[session_id][i])]]]
    /\ UNCHANGED <<app, sessions, indices, cache, uploads, nextId, stale>>

NextNer ==
    \/ CreateSession
    \/ NUploadBegin
    \/ UploadResume
    \/ RunBackgroundTasks
    \/ GetSessionInfo
    \/ DeleteSession
    \/ Idle

SpecNer == InitNer /\ [][NextNer]_vars

\* a response that has been sent is followed by the run of its background
\* tasks
SpecNerFair == SpecNer /\ WF_vars(RunBackgroundTasks)

(***************************************************************************)
(* SessionStorage called directly (SpecStore): sessions are created and    *)
(* cleared, and documents added under ids and texts of the caller's        *)
(* choosing, to sessions that exist and to one that does not.              *)
(***************************************************************************)
StoreDocIds == {"d1", "d2"}
StoreTexts == {TEmpty, TShort}

InitStore ==
    /\ app = [rag |-> FALSE, cache |-> FALSE, ner |-> FALSE, redis |-> FALSE]
    /\ sessions = EmptyMap
    /\ indices = EmptyMap
    /\ cache = EmptyMap
    /\ uploads = EmptyMap
    /\ nextId = 0
    /\ stale = {}
    /\ last = NoOp

\* SessionStorage.add_document called on the storage
SAddDocument ==
    /\ last = NoOp
    /\ \E session_id \in (DOMAIN sessions) \cup {MissingId}, doc_id \in StoreDocIds,
          text \in StoreTexts :
        /\ sessions' = AddDocument(sessions, session_id, doc_id, text).sessions
        /\ last' = [op |-> "add_document", session_id |-> session_id,
                    doc_id |-> doc_id, text |-> text,
                    ret |-> AddDocument(sessions, session_id, doc_id, text).ret]
    /\ UNCHANGED <<app, indices, cache, uploads, nextId, stale>>

\* SessionStorage.clear_session called on the storage
SClearSession ==
    /\ last = NoOp
    /\ \E session_id \in (DOMAIN sessions) \cup {MissingId} :
        /\ sessions' = StorageClearSession(sessions, session_id)
        /\ last' = [op |-> "clear_session", session_id |-> session_id,
                    ret |-> session_id \in DOMAIN sessions]
    /\ UNCHANGED <<app, indices, cache, uploads, nextId, stale>>

NextStore ==
    \/ CreateSession
    \/ SAddDocument
    \/ SClearSession
    \/ Idle

SpecStore == InitStore /\ [][NextStore]_vars

(***************************************************************************)
(* The question routes over a store that has been filled (SpecAsk):        *)
(* session u1 holds two documents, indexed when the RAG engine is there,   *)
(* session u4 holds one whose extracted text is empty (no chunk, so no     *)
(* index); the cache manager, when there is one, keeps its entries in      *)
(* Redis or in memory, and is also called directly.                        *)
(***************************************************************************)
TSplit == Cat(Rep("s", 50), Rep("t", 10))

AskStore ==
    Put(Put(EmptyMap, "u1", <<Doc("u2", TFifty), Doc("u3", TSplit)>>),
        "u4", <<Doc("u5", TEmpty)>>)

\* the questions the manager is called with directly
AskQuestions == {"q1", "q2"}

\* a result dictionary handed to cache_qa_result by a caller of the manager
DirectResult == ResponseData("q1", Lit("cached"), 2, "u2", None)

InitAsk ==
    /\ app \in [rag : BOOLEAN, cache : BOOLEAN, ner : BOOLEAN, redis : BOOLEAN]
    /\ app.redis => app.cache
    /\ sessions = AskStore
    /\ indices = IF app.rag
                 THEN CreateSessionIndex(EmptyMap, EmptyMap, FALSE, "u1",
                                         AskStore["u1"], "none").indices
                 ELSE EmptyMap
    /\ cache = EmptyMap
    /\ uploads = EmptyMap
    /\ nextId = 5
    /\ stale = {}
    /\ last = NoOp

\* what POST /ask leaves behind, with the request's flags
AskReturns(r, highlight, ner_ok) ==
    /\ cache' = r.cache
    /\ last' = r.response @@ [highlight |-> highlight, ner_ok |-> ner_ok]

\* POST /ask
AAsk ==
    /\ last = NoOp
    /\ \E session_id \in (DOMAIN sessions) \cup {MissingId} :
        IF ~SessionExists(sessions, session_id)
        THEN /\ last' = [op |-> "ask", status |-> 404, session_id |-> session_id]
             /\ UNCHANGED <<app, sessions, indices, cache, uploads, nextId, stale>>
        ELSE \E question \in SysQuestions, max_context_length \in SysContextLengths,
                doc_id \in {None, MissingId}
                              \cup DictKeys(GetAllTexts(sessions, session_id)),
                highlight \in BOOLEAN, get_ok \in Flags(app.cache),
                set_ok \in Flags(app.cache), ner_ok \in Flags(app.ner),
                raises \in {~ok : ok \in Flags(app.rag)},
                o \in [1..(Len(GetAllTexts(sessions, session_id)) + 1) -> SysOutcomes] :
                /\ AskReturns(AskQuestion(app, sessions, indices, cache, session_id,
                                          question, doc_id, max_context_length,
                                          highlight, get_ok, set_ok, raises, ner_ok, o),
                              highlight, ner_ok)
                /\ UNCHANGED <<app, sessions, indices, uploads, nextId, stale>>

\* CacheManager.cache_qa_result called on the manager
ACacheQAResult ==
    /\ last = NoOp
    /\ app.cache
    /\ \E session_id \in DOMAIN sessions, question \in AskQuestions, ok \in BOOLEAN :
        /\ cache' = CacheQAResult(cache, session_id, question, DirectResult, ok)
        /\ last' = [op |-> "cache_qa_result", session_id |-> session_id,
                    question |-> question, result |-> DirectResult, ret |-> ok]
        /\ UNCHANGED <<app, sessions, indices, uploads, nextId, stale>>

\* CacheManager.get_qa_result called on the manager
AGetQAResult ==
    /\ last = NoOp
    /\ app.cache
    /\ \E session_id \in DOMAIN sessions, question \in AskQuestions, ok \in BOOLEAN :
        /\ last' = [op |-> "get_qa_result", session_id |-> session_id,
                    question |-> question, ok |-> ok,
                    ret |-> GetQAResult(cache, session_id, question, ok)]
        /\ UNCHANGED <<app, sessions, indices, cache, uploads, nextId, stale>>

NextAsk ==
    \/ AAsk
    \/ ACacheQAResult
    \/ AGetQAResult
    \/ CacheExpire
    \/ Idle

SpecAsk == InitAsk /\ [][NextAsk]_vars

(***************************************************************************)
(* Properties of the RAG engine (SpecRag).                                 *)
(***************************************************************************)
Stride == ChunkSize - ChunkOverlap

\* the window starts range(0, len(text), 450)
WindowStarts(text) == {Stride * j : j \in 0..((StrLen(text) - 1) \div Stride)}

RECURSIVE RunsLen(_, _, _)
RunsLen(w, a, b) == IF a > b THEN 0 ELSE w[a].n + RunsLen(w, a + 1, b)

\* the length of w between its first and its last non-whitespace character
TrimmedLen(w) ==
    LET solid == {k \in 1..Len(w) : ~IsSpace(w[k].c)}
    IN  IF solid = {} THEN 0
        ELSE RunsLen(w, CHOOSE k \in solid : \A j \in solid : k <= j,
                        CHOOSE k \in solid : \A j \in solid : k >= j)

Window(text, i) == PySlice(text, i, i + ChunkSize)

\* the (document position, start) pairs of the windows longer than 50 once trimmed
Surviving(documents) ==
    UNION { {<<d, i>> : i \in {j \in WindowStarts(documents[d].text) :
                                  TrimmedLen(Window(documents[d].text, j)) > MinChunkLen}}
            : d \in 1..Len(documents) }

AllWindows(documents) ==
    UNION { {<<d, i>> : i \in WindowStarts(documents[d].text)} : d \in 1..Len(documents) }

\* entry e holds exactly the windows S of documents, each with its own metadata
IndexedExactly(e, documents, S) ==
    /\ Len(e.texts) = Cardinality(S)
    /\ Len(e.metadata) = Len(e.texts)
    /\ \A k \in 1..Len(e.texts) : \E w \in S :
          /\ e.metadata[k] = [doc_id |-> documents[w[1]].id, start |-> w[2],
                              end |-> Min(w[2] + ChunkSize, StrLen(documents[w[1]].text))]
          /\ e.texts[k] = Window(documents[w[1]].text, w[2])
    /\ \A k, l \in 1..Len(e.texts) : k # l => e.metadata[k] # e.metadata[l]

\* C6: whenever retrieval returned at least one chunk, the assembled context
\* (before truncation) is the retrieved chunks, each once, in non-decreasing
\* order of their start offset, joined by a blank line, whatever their ranks.
C6_AssembledInStartOrder ==
    (last.op = "augment_context" /\ last.used # <<>>) =>
        LET got == RetrieveRelevantChunks(indices, last.session_id, last.question,
                                          RagTopK, last.raises)
            u   == last.used
        IN  /\ Len(u) = Len(got)
            /\ {u[i].rank : i \in 1..Len(u)} = 1..Len(got)
            /\ \A i \in 1..Len(u) : u[i] = got[u[i].rank]
            /\ \A i, j \in 1..Len(u) : i < j => u[i].metadata.start <= u[j].metadata.start
            /\ last.full = Join(BlankLine, [i \in 1..Len(u) |-> u[i].chunk])

\* C6 witness: ten chunks were assembled and the best-ranked one is not first.
C6_Witness ==
    /\ last.op = "augment_context"
    /\ Len(last.used) = RagTopK
    /\ last.used[1].rank # 1
    /\ \E i \in 1..(Len(last.used) - 1) : last.used[i].rank > last.used[i + 1].rank

\* C9 (as claimed): a build that returns False leaves the registry as it was,
\* and one that returns True leaves the complete new entry for the session.
C9_ReplaceOnSuccessOnly ==
    [][ last'.op = "create_session_index" =>
          IF last'.ret
          THEN /\ last'.session_id \in DOMAIN indices'
               /\ indices'[last'.session_id].documents = last'.documents
               /\ IndexedExactly(indices'[last'.session_id], last'.documents,
                                 Surviving(last'.documents))
          ELSE indices' = indices ]_vars

\* C10 (as claimed): the build returns False exactly when no window survives
\* the filter, and otherwise the session's entry holds exactly the survivors.
C10_FalseExactlyWhenNoWindow ==
    last.op = "create_session_index" =>
        LET S == Surviving(last.documents)
        IN  /\ (last.ret = FALSE) <=> (S = {})
            /\ S # {} => /\ last.session_id \in DOMAIN indices
                         /\ IndexedExactly(indices[last.session_id], last.documents, S)

\* C10 (amended): the build returns False whenever no window survives the
\* filter, returns False otherwise only when a step of the build raises, and
\* whenever it returns True the session's entry holds exactly the windows
\* whose trimmed length exceeds 50.
C10_BuildResult ==
    last.op = "create_session_index" =>
        LET S == Surviving(last.documents)
        IN  /\ S = {} => last.ret = FALSE
            /\ last.ret = FALSE => (S = {} \/ last.fail \in {"encode", "index", "tolist"})
            /\ last.ret = TRUE =>
                  /\ last.session_id \in DOMAIN indices
                  /\ IndexedExactly(indices[last.session_id], last.documents, S)

\* C10 witness: a successful build that dropped some windows and kept others.
C10_Witness ==
    /\ last.op = "create_session_index"
    /\ last.ret = TRUE
    /\ Cardinality(Surviving(last.documents)) >= 2
    /\ Surviving(last.documents) # AllWindows(last.documents)

RetrieveReturned == last.op = "retrieve_relevant_chunks"

\* C11: a retrieval for a session id that has no registry entry returns the
\* empty list, and no retrieval changes the registry.
C11_NoIndexNoResult ==
    [][ last'.op = "retrieve_relevant_chunks" =>
          /\ indices' = indices
          /\ last'.session_id \notin DOMAIN indices => last'.ret = <<>> ]_vars

\* C11 witness: the retrieval came back empty for a session whose index was
\* built (its embeddings are still cached) and then removed, while another
\* session still has one.
C11_Witness ==
    /\ RetrieveReturned
    /\ last.session_id \notin DOMAIN indices
    /\ indices # EmptyMap
    /\ GenerateKey("embeddings", <<last.session_id>>) \in DOMAIN cache
    /\ last.ret = <<>>

\* C12: when encoding the query and the search succeed, a retrieval over an
\* entry of N chunks returns min(top_k, N) results with ranks 1, 2, ...; each
\* is an indexed chunk with that chunk's own metadata and distance, no chunk
\* twice, in non-decreasing distance, and no chunk left out is nearer than
\* one returned.
C12_ClampedBestFirst ==
    (RetrieveReturned /\ last.session_id \in DOMAIN indices /\ ~last.raises) =>
        LET e  == indices[last.session_id]
            N  == Len(e.texts)
            r  == last.ret
            qv == QueryVec(last.query)
        IN  /\ Len(r) = Min(last.top_k, N)
            /\ \A i \in 1..Len(r) :
                  /\ r[i].rank = i
                  /\ r[i].similarity = <<1, 1 + r[i].distance>>
                  /\ \E p \in 1..N : /\ r[i].chunk = e.texts[p]
                                     /\ r[i].metadata = e.metadata[p]
                                     /\ r[i].distance = Distance(qv, e.index[p])
            /\ \A i, j \in 1..Len(r) :
                  i < j => /\ r[i].metadata # r[j].metadata
                           /\ r[i].distance <= r[j].distance
            /\ \A p \in 1..N :
                  (\A i \in 1..Len(r) : r[i].metadata # e.metadata[p])
                      => \A i \in 1..Len(r) : r[i].distance <= Distance(qv, e.index[p])

\* C12 witness: ten results were asked of an index of fewer chunks; all of
\* them came back, the nearest one a later chunk of its document.
C12_Witness ==
    /\ RetrieveReturned /\ last.session_id \in DOMAIN indices /\ ~last.raises
    /\ last.top_k > Len(indices[last.session_id].texts)
    /\ Len(last.ret) = Len(indices[last.session_id].texts)
    /\ Len(last.ret) >= 2
    /\ last.ret[1].distance < last.ret[2].distance
    /\ last.ret[1].metadata.start > last.ret[2].metadata.start

\* the registry positions of the chunks of one document
ChunksOf(e, doc_id) == {k \in 1..Len(e.metadata) : e.metadata[k].doc_id = doc_id}

\* chunk k is the substring text[start:end] of the document its metadata names
IsSubstringOfItsDocument(e, k) ==
    LET m  == e.metadata[k]
        at == Position(e.documents, m.doc_id)
    IN  /\ at # 0
        /\ e.texts[k] = PySlice(e.documents[at].text, m.start, m.end)
        /\ m.end - m.start <= ChunkSize

\* C13 (as claimed): every indexed chunk is text[start:end] of its document
\* with end - start <= 500, and two consecutive indexed chunks of the same
\* document overlap by exactly 50 characters.
C13_ExactOverlap ==
    \A s \in DOMAIN indices :
        LET e == indices[s]
        IN  /\ \A k \in 1..Len(e.texts) : IsSubstringOfItsDocument(e, k)
            /\ \A k \in 1..(Len(e.texts) - 1) :
                  e.metadata[k].doc_id = e.metadata[k + 1].doc_id
                      => e.metadata[k].end - e.metadata[k + 1].start = ChunkOverlap

\* C13 (amended): every indexed chunk is text[start:end] of the document its
\* metadata names, start a multiple of 450, 0 <= start < end <= len(text),
\* end - start <= 500 and equal to the chunk's length; of two consecutive
\* indexed chunks of the same document the earlier is 500 long, and they
\* overlap by exactly 50 characters when their windows are adjacent (starts
\* 450 apart) and not at all when windows between them were dropped.
C13_OverlapOfAdjacentWindows ==
    \A s \in DOMAIN indices :
        LET e == indices[s]
        IN  /\ \A k \in 1..Len(e.texts) :
                  LET m == e.metadata[k]
                  IN  /\ IsSubstringOfItsDocument(e, k)
                      /\ m.start % 450 = 0
                      /\ 0 <= m.start /\ m.start < m.end
                      /\ m.end <= StrLen(e.documents[Position(e.documents, m.doc_id)].text)
                      /\ StrLen(e.texts[k]) = m.end - m.start
            /\ \A k \in 1..(Len(e.texts) - 1) :
                  LET m == e.metadata[k]
                      n == e.metadata[k + 1]
                  IN  m.doc_id = n.doc_id =>
                        /\ m.start < n.start
                        /\ m.end - m.start = ChunkSize
                        /\ IF n.start - m.start = 450
                           THEN m.end - n.start = ChunkOverlap
                           ELSE n.start - m.end >= 400

\* C13 witness: an index holding two chunks from adjacent windows of one
\* document and two chunks of another with a dropped window between them.
C13_Witness ==
    \E s \in DOMAIN indices :
        LET e == indices[s]
        IN  /\ \E k \in 1..(Len(e.texts) - 1) :
                  /\ e.metadata[k].doc_id = e.metadata[k + 1].doc_id
                  /\ e.metadata[k].end < e.metadata[k + 1].start
            /\ \E k \in 1..(Len(e.texts) - 1) :
                  /\ e.metadata[k].doc_id = e.metadata[k + 1].doc_id
                  /\ e.metadata[k].end = e.metadata[k + 1].start + ChunkOverlap
                  /\ e.metadata[k + 1].end - e.metadata[k + 1].start < ChunkSize

\* the chunks of document d of entry e cover every position of its text: one
\* starts at 0, one ends at the end of the text, and every other one is met
\* or overlapped by a later one
Covered(e, d) ==
    LET len == StrLen(e.documents[d].text)
        ks  == ChunksOf(e, e.documents[d].id)
    IN  len = 0 \/
          /\ \E k \in ks : e.metadata[k].start = 0
          /\ \A k \in ks :
                \/ e.metadata[k].end = len
                \/ \E j \in ks : /\ e.metadata[j].start > e.metadata[k].start
                                 /\ e.metadata[j].start <= e.metadata[k].end

\* the windows text[i:i+500], i = 0, 450, ... of a text cover every position
WindowsCover(text) ==
    \A i \in WindowStarts(text) :
        \/ i + ChunkSize >= StrLen(text)
        \/ i + 450 \in WindowStarts(text)

\* C14 (as claimed): the ranges of the chunks indexed for a document cover
\* every character position of its text.
C14_EveryCharacterCovered ==
    \A s \in DOMAIN indices :
        \A d \in 1..Len(indices[s].documents) : Covered(indices[s], d)

\* C14 (amended): the windows of a text cover every position of it; the
\* chunks indexed are exactly the windows whose trimmed length exceeds 50,
\* so they cover the text of a document none of whose windows is dropped,
\* and otherwise only the positions of the windows kept.
C14_CoveredByWindowsKept ==
    \A s \in DOMAIN indices :
        LET e == indices[s]
            kept == Surviving(e.documents)
        IN  /\ {<<Position(e.documents, e.metadata[k].doc_id), e.metadata[k].start>> :
                    k \in 1..Len(e.metadata)} = kept
            /\ Len(e.metadata) = Cardinality(kept)
            /\ \A k \in 1..Len(e.metadata) :
                  e.metadata[k].end = Min(e.metadata[k].start + ChunkSize,
                        StrLen(e.documents[Position(e.documents, e.metadata[k].doc_id)].text))
            /\ \A d \in 1..Len(e.documents) :
                  /\ WindowsCover(e.documents[d].text)
                  /\ (\A i \in WindowStarts(e.documents[d].text) : <<d, i>> \in kept)
                        => Covered(e, d)

\* C14 witness: an indexed document with characters that are in none of its
\* chunks, next to one that is covered by two chunks.
C14_Witness ==
    \E s \in DOMAIN indices :
        LET e == indices[s]
        IN  \E d, c \in 1..Len(e.documents) :
               /\ ChunksOf(e, e.documents[d].id) # {}
               /\ ~Covered(e, d)
               /\ Cardinality(ChunksOf(e, e.documents[c].id)) = 2
               /\ Covered(e, c)

(***************************************************************************)
(* Properties of the QA engine (SpecQA).                                   *)
(***************************************************************************)
IsBlank(text) == text = EmptyStr \/ Strip(text) = EmptyStr

AFDReturned == last.op = "answer_from_documents"

\* the RAG attempt of the call that returned was made and reached the model
RagTried == AFDReturned /\ app.rag /\ last.session_id # None
RagReachedModel == RagTried /\ ~IsBlank(last.augmented)

\* what document i contributes to the fallback: the model's score on the text
\* handed over, 0.0 when that text is blank or the model call raises
CandidateScore(i) ==
    IF IsBlank(FallbackContext(last.documents[i].text, last.max_context_length))
       \/ last.o[i + 1].kind = "raise"
    THEN 0
    ELSE last.o[i + 1].score

\* the first document, in mapping order, that has the highest candidate score
FirstBest ==
    CHOOSE i \in 1..Len(last.documents) :
        /\ \A j \in 1..Len(last.documents) : CandidateScore(j) <= CandidateScore(i)
        /\ \A j \in 1..(i - 1) : CandidateScore(j) < CandidateScore(i)

\* C1: when the RAG attempt gets no answer from the model (the assembled context
\* is blank, or the model call on it raises), the result is the fallback's and
\* never carries the RAG provenance
C1_FailedRagFallsBack ==
    (RagTried /\ (IsBlank(last.augmented) \/ last.o[1].kind = "raise"))
        => /\ ~last.via_rag
           /\ last.res.source # RagSource

\* C2: when the model returns a non-empty span on the assembled context, that
\* span is returned with source "RAG-retrieved-chunks" and the model's score,
\* and the model was called exactly once, on the assembled context
C2_RagShortCircuit ==
    (RagReachedModel /\ last.o[1].kind = "ok" /\ last.o[1].span = "tail")
        => /\ last.res.source = RagSource
           /\ last.res.score = last.o[1].score
           /\ last.res.answer = PySlice(last.augmented, -1, StrLen(last.augmented))
           /\ last.res.answer # EmptyStr
           /\ last.calls = <<last.augmented>>

\* a short-circuit that hides a better-scoring document
C2_Witness ==
    /\ RagReachedModel /\ last.o[1].kind = "ok" /\ last.o[1].span = "tail"
    /\ last.via_rag
    /\ last.o[1].score = 0
    /\ Len(last.documents) >= 2
    /\ \E i \in 1..Len(last.documents) : CandidateScore(i) > 0

\* C3 as stated: without RAG the result is the highest-scoring document's
\* candidate, tagged with that document's id, for every document mapping
C3_HighestScoreWins ==
    (AFDReturned /\ ~RagTried /\ last.documents # <<>>)
        => /\ last.res.source = last.documents[FirstBest].id
           /\ last.res.score = CandidateScore(FirstBest)

\* C3 amended: the first document with the highest score wins when that score
\* is positive; otherwise the result is the "No answer found" sentinel
C3_BestPositiveOrSentinel ==
    (AFDReturned /\ ~RagTried)
        => IF last.documents # <<>> /\ CandidateScore(FirstBest) > 0
           THEN /\ last.res.source = last.documents[FirstBest].id
                /\ last.res.score = last.o[FirstBest + 1].score
                /\ last.res.answer # Lit("No answer found")
           ELSE last.res = [answer |-> Lit("No answer found"), score |-> 0,
                            source |-> None]

\* a tie at the top between the second and the third document
C3_Witness ==
    /\ AFDReturned /\ ~RagTried
    /\ Len(last.documents) = 3
    /\ CandidateScore(1) < CandidateScore(2)
    /\ CandidateScore(2) = CandidateScore(3)
    /\ last.res.source = last.documents[2].id

\* the contexts the fallback handed to the model (the RAG call left out)
FallbackCalls ==
    IF RagReachedModel THEN Tail(last.calls) ELSE last.calls

\* document i reached the model in the fallback
Handed(i) ==
    ~IsBlank(FallbackContext(last.documents[i].text, last.max_context_length))

\* the position of document i's call among the fallback's calls
CallOf(i) == Cardinality({j \in 1..i : Handed(j)})

C5_SameAsAssembler ==
    (last.op = "qa_augment_context" /\ app.rag)
        => last.ret = RagAugmentContext(indices, last.session_id, last.question,
                                        last.max_context_length, last.raises).ret

\* C15: answer on an empty or whitespace-only context returns score 0.0 with
\* start = end = 0 and makes no model call; on every other context it returns
\* a record of exactly answer, score, start and end: the model's span and
\* score, or score 0.0 with start = end = 0 when the model call raises.
C15_AnswerNeverRaises ==
    last.op = "answer" =>
        /\ DOMAIN last.res = {"answer", "score", "start", "end"}
        /\ last.res.score \in 0..MaxScore
        /\ 0 <= last.res.start /\ last.res.start <= last.res.end
        /\ last.res.end <= StrLen(last.context)
        /\ IsBlank(last.context) =>
              /\ last.res.score = 0 /\ last.res.start = 0 /\ last.res.end = 0
              /\ last.calls = <<>>
        /\ (~IsBlank(last.context) /\ last.o.kind = "raise") =>
              /\ last.res.score = 0 /\ last.res.start = 0 /\ last.res.end = 0
              /\ last.res.answer = Lit("Error processing question")
        /\ (~IsBlank(last.context) /\ last.o.kind = "ok") =>
              /\ last.res.score = last.o.score
              /\ last.res.answer = PySlice(last.context, last.res.start, last.res.end)

\* C15 witness: a context of sixty spaces was answered without a model call
\* although the model would have raised.
C15_Witness ==
    /\ last.op = "answer"
    /\ last.context # EmptyStr
    /\ IsBlank(last.context)
    /\ last.o.kind = "raise"
    /\ last.calls = <<>>
    /\ last.res.answer = Lit("No context provided")

(***************************************************************************)
(* Properties of the service (Spec).                                       *)
(***************************************************************************)
\* C7: when retrieval yields no chunk for a session, the assembler returns the
\* session's raw document texts, joined and truncated to max_context_length
C7_FallsBackToRawDocuments ==
    (last.op = "augment_context" /\ last.used = <<>>)
        => last.ret = Truncate(Join(BlankLine,
                                    DictValues(GetAllTexts(sessions, last.session_id))),
                               last.max_context_length)

\* C8: no question is answered from a QA result that was cached before a
\* document was added to its session
C8_NoStaleCachedAnswer ==
    (last.op \in {"ask", "ask_detailed"} /\ last.status # 404 /\ last.hit)
        => last.key \notin stale

AnswerOn(text) ==
    IF IsBlank(text) THEN {[answer |-> Lit("No context provided"), confidence |-> 0]}
    ELSE {[answer |-> PySlice(text, -1, StrLen(text)), confidence |-> 1],
          [answer |-> Lit("Error processing question"), confidence |-> 0]}

\* the session's document named by the request
AskedDocument(r) == Position(GetAllTexts(sessions, r.session_id), r.doc_id)

\* C17 (as claimed): a question put to one document of the session gets no
\* cache hit, leaves the cache as it was, and is answered (status 200, source
\* "Unknown", never the RAG source) by QAEngine.answer run on the whole
\* stored text of that document; only a question without doc_id gets a hit
\* or changes the cache.
C17_SingleDocumentAnswered ==
    [][ (last'.op = "ask" /\ last'.session_id \in DOMAIN sessions) =>
          /\ (last'.hit \/ cache' # cache) => last'.doc_id = None
          /\ (last'.doc_id # None /\ AskedDocument(last') # 0) =>
                LET text == sessions[last'.session_id][AskedDocument(last')].text
                IN  /\ cache' = cache
                    /\ ~last'.hit
                    /\ last'.status = 200
                    /\ last'.body.source_doc = "Unknown"
                    /\ [answer |-> last'.body.answer,
                        confidence |-> last'.body.confidence] \in AnswerOn(text) ]_vars

\* C17, the part that holds: the same, for a document whose stored text is
\* not empty; one whose stored text is empty is answered with status 404 and
\* no answer.
C17_SingleDocumentBypasses ==
    [][ (last'.op = "ask" /\ last'.session_id \in DOMAIN sessions) =>
          /\ (last'.hit \/ cache' # cache) => last'.doc_id = None
          /\ (last'.doc_id # None /\ AskedDocument(last') # 0) =>
                LET text == sessions[last'.session_id][AskedDocument(last')].text
                IN  /\ cache' = cache
                    /\ ~last'.hit
                    /\ IF text = EmptyStr
                       THEN last'.status = 404 /\ last'.body.answer = None
                       ELSE /\ last'.status = 200
                            /\ last'.body.source_doc = "Unknown"
                            /\ [answer |-> last'.body.answer,
                                confidence |-> last'.body.confidence]
                                  \in AnswerOn(text) ]_vars

\* what get_qa_result returns from store c when the backend answers
Got(c, session_id, question) == GetQAResult(c, session_id, question, TRUE)

\* a get that found value
Found(got, value) == got.hit /\ got.value = value

\* two gets with the same outcome
SameGot(g, h) == g.hit = h.hit /\ (g.hit => g.value = h.value)

\* C18: on either backend, a cache_qa_result that succeeded is followed by
\* get_qa_result returning an equal value; a /ask that computed its answer
\* leaves exactly that response under its key, and a /ask that finds an entry
\* returns the value held and leaves the cache alone; what get_qa_result
\* returns for a (session, question) changes only by a write for that same
\* session and question or by the entry's expiry.
C18_CachedResultReturned ==
    [][ /\ (last'.op = "cache_qa_result" /\ last'.ret) =>
              Found(Got(cache', last'.session_id, last'.question), last'.result)
        /\ (last'.op = "get_qa_result" /\ last'.ok) =>
              /\ SameGot(last'.ret, Got(cache, last'.session_id, last'.question))
              /\ cache' = cache
        /\ (last'.op = "ask" /\ last'.session_id \in DOMAIN sessions) =>
              IF last'.hit
              THEN /\ Found(CacheGet(cache, last'.key, TRUE), last'.body)
                   /\ cache' = cache
              ELSE cache' # cache =>
                        Found(CacheGet(cache', last'.key, TRUE), last'.body)
        /\ \A s \in (DOMAIN sessions) \cup {MissingId}, q \in Questions :
              ~SameGot(Got(cache', s, q), Got(cache, s, q)) =>
                  \/ /\ last'.op = "cache_qa_result"
                     /\ last'.session_id = s /\ last'.question = q
                  \/ /\ last'.op = "ask"
                     /\ last'.key = QAResultKey(s, q)
                  \/ /\ last' = last
                     /\ ~Got(cache', s, q).hit ]_vars

\* C18 witness: with Redis, a /ask was answered from the entry an earlier /ask
\* had written, while the cache held other values for another question of the
\* session and for the same question of another session.
C18_Witness ==
    /\ last.op = "ask"
    /\ last.session_id \in DOMAIN sessions
    /\ last.hit
    /\ app.redis
    /\ last.status = 200
    /\ last.body # DirectResult
    /\ Found(Got(cache, last.session_id, "q2"), DirectResult)
    /\ \E s \in (DOMAIN sessions) \ {last.session_id} : Got(cache, s, "q1").hit
\* two responses of POST /ask with the same status, confidence and source
SameOutcome(r, m) ==
    /\ r.status = m.status
    /\ r.body.confidence = m.body.confidence
    /\ r.body.source_doc = m.body.source_doc

\* C19 (as claimed): whatever the cache does (no manager configured, the
\* backend failing on get or on set), a whole-session /ask that is not served
\* from the cache has the status, confidence and source that the computation
\* on a cache miss gives for the same request.
C19_CacheNeverFailsAsk ==
    \A session_id \in DOMAIN sessions :
    \A question \in SysQuestions,
       max_context_length \in SysContextLengths, highlight \in BOOLEAN,
       get_ok \in Flags(app.cache), set_ok \in Flags(app.cache),
       ner_ok \in Flags(app.ner), raises \in {~ok : ok \in Flags(app.rag)},
       o \in [1..(Len(GetAllTexts(sessions, session_id)) + 1) -> SysOutcomes] :
        AskQuestion(app, sessions, indices, cache, session_id, question, None,
                    max_context_length, highlight, get_ok, set_ok, raises, ner_ok,
                    o).response.hit
        \/ SameOutcome(AskQuestion(app, sessions, indices, cache, session_id,
                                   question, None, max_context_length, highlight,
                                   get_ok, set_ok, raises, ner_ok, o).response,
                       AskCorpus(app, indices, cache, session_id, question,
                                 max_context_length, highlight, FALSE, raises,
                                 ner_ok, o,
                                 GetAllTexts(sessions, session_id)).response)

\* C20: where the NER service is absent or raises, a /ask that asks for
\* entity highlighting returns, and caches, exactly what the same request
\* without highlighting does (same status, answer, confidence and source),
\* with no entities: for every request that is computed (nothing cached),
\* and in the response of every /ask the run has made.
C20_NerFailureKeepsAnswer ==
    /\ (last.op = "ask" /\ last.session_id \in DOMAIN sessions /\ ~last.hit
            /\ last.highlight /\ (~app.ner \/ ~last.ner_ok)) =>
          last.body.entities = None
    /\ (cache = EmptyMap /\ last = NoOp) =>
          \A session_id \in DOMAIN sessions :
          \A question \in SysQuestions, max_context_length \in SysContextLengths,
             doc_id \in {None, MissingId}
                           \cup DictKeys(GetAllTexts(sessions, session_id)),
             get_ok \in Flags(app.cache), set_ok \in Flags(app.cache),
             ner_ok \in Flags(app.ner), raises \in {~ok : ok \in Flags(app.rag)},
             o \in [1..(Len(GetAllTexts(sessions, session_id)) + 1) -> SysOutcomes] :
              (~app.ner \/ ~ner_ok) =>
                  /\ AskQuestion(app, sessions, indices, cache, session_id,
                                 question, doc_id, max_context_length, TRUE, get_ok,
                                 set_ok, raises, ner_ok, o)
                       = AskQuestion(app, sessions, indices, cache, session_id,
                                     question, doc_id, max_context_length, FALSE,
                                     get_ok, set_ok, raises, ner_ok, o)
                  /\ AskQuestion(app, sessions, indices, cache, session_id,
                                 question, doc_id, max_context_length, TRUE, get_ok,
                                 set_ok, raises, ner_ok, o).response.body.entities
                       = None

\* C20 witness: with an NER service configured, a /ask that asked for
\* highlighting was answered from the documents while the service raised, and
\* carries the answer without entities.
C20_Witness ==
    /\ last.op = "ask"
    /\ last.session_id \in DOMAIN sessions
    /\ app.ner
    /\ last.highlight
    /\ ~last.ner_ok
    /\ ~last.hit
    /\ last.status = 200
    /\ last.body.confidence > 0
    /\ last.body.entities = None

(***************************************************************************)
(* Properties of the uploads with NER (SpecNer).                           *)
(***************************************************************************)
\* how far a status is along pending -> processing -> completed | failed
StatusRank(status) ==
    CASE status = "pending" -> 1
      [] status = "processing" -> 2
      [] status \in {"completed", "failed"} -> 3
      [] OTHER -> 0

\* status b is status a or a later one, both among the four
Advances(a, b) ==
    /\ StatusRank(a) > 0
    /\ StatusRank(b) > 0
    /\ \/ a = b
       \/ StatusRank(a) < StatusRank(b)

\* the documents a store holds, as <<session id, position>>
StoredAt(ss) == UNION {{<<sid, i>> : i \in 1..Len(ss[sid])} : sid \in DOMAIN ss}

\* the stored record of document doc_id of session sid
StoredDoc(ss, sid, doc_id) == ss[sid][Position(ss[sid], doc_id)]

\* the record at p was not in the store ss
NewIn(ss, ss2, p) == Position(GetDocuments(ss, p[1]), ss2[p[1]][p[2]].id) = 0

\* every task of the run went through its statuses in order
TasksInOrder(seen) ==
    \A k \in 1..Len(seen) :
        \/ seen[k] = <<"gone", "gone", "gone">>
        \/ /\ Advances(seen[k][1], seen[k][2])
           /\ Advances(seen[k][2], seen[k][3])
           /\ seen[k][2] = "processing"

\* C21 (as claimed): a document that enters the store carries ner_status
\* "pending" and entities None; the status of a stored document only ever
\* moves forward along pending -> processing -> completed | failed, inside a
\* background task and from one step to the next, and is always one of the
\* four.
C21_StartsPendingAndAdvances ==
    [][ /\ \A p \in StoredAt(sessions') :
              LET doc == sessions'[p[1]][p[2]]
              IN  IF NewIn(sessions, sessions', p)
                  THEN /\ "ner_status" \in DOMAIN doc
                       /\ "entities" \in DOMAIN doc
                       /\ doc.ner_status = "pending"
                       /\ doc.entities = None
                  ELSE Advances(NerStatusOf(StoredDoc(sessions, p[1], doc.id)),
                                NerStatusOf(doc))
        /\ last'.op = "background_tasks" => TasksInOrder(last'.seen) ]_vars

\* C21, the part that holds: read as get_session_info reads it (a missing key
\* is "pending", missing entities are None), a document that enters the store
\* is pending without entities, and its status only ever moves forward.
C21_ReportedStatusAdvances ==
    [][ /\ \A p \in StoredAt(sessions') :
              LET doc == sessions'[p[1]][p[2]]
              IN  IF NewIn(sessions, sessions', p)
                  THEN NerStatusOf(doc) = "pending" /\ EntitiesOf(doc) = None
                  ELSE Advances(NerStatusOf(StoredDoc(sessions, p[1], doc.id)),
                                NerStatusOf(doc))
        /\ last'.op = "background_tasks" => TasksInOrder(last'.seen) ]_vars

\* the uploads whose response has been sent and whose tasks have not run
AwaitingTasks == {u \in DOMAIN uploads : uploads[u].files = <<>>}

\* the stored record doc holds these entities
HasEntities(doc, entities) == "entities" \in DOMAIN doc /\ doc.entities = entities

Settled(t, ner_ok, final, ss) ==
    IF final = "gone" THEN t.session_id \notin DOMAIN ss
    ELSE LET doc == StoredDoc(ss, t.session_id, t.doc_id)
         IN  IF t.text = EmptyStr
             THEN final = "completed" /\ "entities" \notin DOMAIN doc
             ELSE IF ner_ok
             THEN final = "completed" /\ HasEntities(doc, HighlightEntities(t.text))
             ELSE final = "failed" /\ "entities" \notin DOMAIN doc

IdsOf(docs) == [i \in 1..Len(docs) |-> docs[i].id]

\* the sequence s without its element at position at (at = 0: all of s)
Without(s, at) == [i \in 1..(Len(s) - (IF at = 0 THEN 0 ELSE 1)) |->
                       IF at = 0 \/ i < at THEN s[i] ELSE s[i + 1]]

\* C23: add_document on a session id that does not exist returns False and
\* leaves every session as it was; on a session that exists it returns True,
\* and afterwards get_documents and get_all_texts of that session hold the
\* document with exactly the text given, the session's other documents are
\* the same as before and in the same order, and every other session is
\* unchanged.
C23_AddDocumentContract ==
    [][ last'.op = "add_document" =>
          IF last'.session_id \notin DOMAIN sessions
          THEN ~last'.ret /\ sessions' = sessions
          ELSE LET sid    == last'.session_id
                   before == GetDocuments(sessions, sid)
                   after  == GetDocuments(sessions', sid)
                   at     == Position(after, last'.doc_id)
               IN  /\ last'.ret
                   /\ DOMAIN sessions' = DOMAIN sessions
                   /\ \A other \in (DOMAIN sessions) \ {sid} :
                          sessions'[other] = sessions[other]
                   /\ at # 0
                   /\ after[at].text = last'.text
                   /\ GetAllTexts(sessions', sid)[at] = Doc(last'.doc_id, last'.text)
                   /\ GetDocumentText(sessions', sid, last'.doc_id) = last'.text
                   /\ Without(after, at)
                        = Without(before, Position(before, last'.doc_id)) ]_vars

\* C23 witness: a document was added as the second of its session, with an
\* empty text, while another session holds a document of the same id.
C23_Witness ==
    /\ last.op = "add_document"
    /\ last.ret
    /\ last.text = TEmpty
    /\ Position(sessions[last.session_id], last.doc_id) = 2
    /\ \E other \in (DOMAIN sessions) \ {last.session_id} :
          /\ Position(sessions[other], last.doc_id) = 1
          /\ sessions[other][1].text = TShort

(***************************************************************************)
(* Properties of the service: deletion and concurrent uploads (Spec).      *)
(***************************************************************************)
\* every id a session can be named by
SessionIds == {Uuid4(n) : n \in 0..(MaxUuids - 1)} \cup {MissingId}

\* the entries of cache c that are not keyed by session_id
OthersEntries(c, session_id) ==
    [k \in (DOMAIN c) \ KeysOf(c, session_id) |-> c[k]]

\* what a step leaves of deleted sessions; cleared is what the cache must
\* hold for the session once DELETE has returned
DeletionHolds(cleared(_)) ==
    /\ DOMAIN indices' \subseteq DOMAIN sessions'
    /\ (last'.op = "delete_session" /\ last'.status = 200) =>
          LET sid == last'.session_id
          IN  /\ sid \notin DOMAIN sessions'
              /\ sid \notin DOMAIN indices'
              /\ cleared(sid)
              /\ \A other \in (DOMAIN sessions) \ {sid} :
                    /\ other \in DOMAIN sessions'
                    /\ sessions'[other] = sessions[other]
                    /\ other \in DOMAIN indices <=> other \in DOMAIN indices'
                    /\ other \in DOMAIN indices => indices'[other] = indices[other]
              /\ OthersEntries(cache', sid) = OthersEntries(cache, sid)
    /\ \A sid \in SessionIds \ ((DOMAIN sessions) \cup {Uuid4(nextId)}) :
          /\ sid \notin DOMAIN sessions'
          /\ KeysOf(cache', sid) \subseteq KeysOf(cache, sid)
          /\ \A k \in KeysOf(cache', sid) : cache'[k] = cache[k]
    /\ (last'.op \in {"ask", "ask_detailed", "delete_session"}
            /\ last'.session_id \notin DOMAIN sessions) => last'.status = 404
    /\ (last'.op = "upload" /\ uploads' = uploads
            /\ last'.session_id \notin DOMAIN sessions') => last'.status = 404

OnlyEmptyTexts(ss, session_id) ==
    \A i \in 1..Len(GetAllTexts(ss, session_id)) :
        GetAllTexts(ss, session_id)[i].text = EmptyStr

\* C25 (as claimed): a question put to the whole of an existing session that
\* has no documents, or only documents with an empty text, is answered with
\* status 200 by the zero-confidence "No answer found" result (stated where a
\* cache manager is configured).
C25_NoAnswerFoundNotAnError ==
    (last.op = "ask" /\ last.session_id \in DOMAIN sessions /\ last.doc_id = None
        /\ app.cache /\ OnlyEmptyTexts(sessions, last.session_id))
        => /\ last.status = 200
           /\ last.body.confidence = 0
           /\ last.body.answer = Lit("No answer found")

(***************************************************************************)
(* Properties of the service: uploads against deletions and rebuilds       *)
(* (Spec).                                                                 *)
(***************************************************************************)
\* C26 (as claimed): every document an upload response reports with status
\* "success" (and counts in documents_uploaded) is stored in the session the
\* response names at the moment the response is produced.
C26_ReportedSuccessIsStored ==
    (last.op = "upload" /\ last.status = 200) =>
        /\ last.documents_uploaded = Cardinality(Successes(last.documents))
        /\ \A i \in Successes(last.documents) :
              Position(GetDocuments(sessions, last.session_id),
                       last.documents[i].doc_id) # 0

\* the uploads to a session that have not sent their response yet
InFlight(session_id) ==
    {u \in DOMAIN uploads : uploads[u].session_id = session_id /\ uploads[u].files # <<>>}

\* C27: once every in-flight upload to a session has completed, an index that
\* exists for the session was built from exactly the documents the session
\* stores (same ids and texts), whatever the outcome of the rebuilds
C27_IndexBuiltFromStoredDocuments ==
    \A session_id \in DOMAIN indices :
        InFlight(session_id) = {} =>
            indices[session_id].documents = GetAllTexts(sessions, session_id)

(***************************************************************************)
(* Retrievals against rebuilds and deletions (Spec).  Every handler is a   *)
(* coroutine on one event loop and neither retrieve_relevant_chunks nor    *)
(* create_session_index awaits, so a retrieval runs between two steps of   *)
(* the uploads and deletions it is concurrent with, never inside one.      *)
(***************************************************************************)
\* the entry is one build of its documents: chunk i, metadata i and
\* embedding row i belong together
CompleteBuild(e) ==
    LET chunks == ChunkAll(e.documents)
    IN  /\ Len(e.texts) = Len(chunks)
        /\ Len(e.metadata) = Len(chunks)
        /\ Len(e.embeddings) = Len(chunks)
        /\ Len(e.index) = Len(chunks)
        /\ \A i \in 1..Len(chunks) :
              /\ e.texts[i] = chunks[i].chunk
              /\ e.metadata[i] = chunks[i].meta
              /\ e.embeddings[i] = Encode(e.texts[i])
              /\ e.index[i] = e.embeddings[i]

\* C28: a retrieval made while uploads to the session are in flight or after
\* a deletion observes one complete index: every registry entry is one
\* build with aligned search rows, texts and metadata, and each chunk a
\* retrieval returns is a chunk of the session's entry with that chunk's
\* metadata and the distance of its row; or the retrieval returns nothing.
C28_RetrievalSeesOneBuild ==
    /\ \A session_id \in DOMAIN indices : CompleteBuild(indices[session_id])
    /\ last.op = "augment_context" =>
          \/ last.used = <<>>
          \/ /\ last.session_id \in DOMAIN indices
             /\ LET e == indices[last.session_id]
                IN  \A i \in 1..Len(last.used) :
                      \E p \in 1..Len(e.texts) :
                          /\ last.used[i].chunk = e.texts[p]
                          /\ last.used[i].metadata = e.metadata[p]
                          /\ last.used[i].distance
                               = Distance(QueryVec(last.question), e.index[p])

\* C28 witness: the retrieval returned both chunks of an index built by an
\* earlier upload while another upload to the same session was waiting for
\* its file, its rebuild still to come.
C28_Witness ==
    /\ last.op = "augment_context"
    /\ Len(last.used) = 2
    /\ last.used[1].metadata # last.used[2].metadata
    /\ InFlight(last.session_id) # {}

(***************************************************************************)
(* Properties of the result cache against the request's settings (SpecAsk) *)
(***************************************************************************)
\* C29: a cache hit on /ask returns what a fresh computation of the request
\* would return; in particular a request with highlight_entities = true, with
\* the NER service loaded and working, is never served a cached response
\* whose entities were not computed
C29_HitHonoursHighlight ==
    (last.op = "ask" /\ last.status = 200 /\ last.hit /\ last.body # DirectResult
        /\ last.highlight /\ app.ner /\ last.ner_ok)
        => last.body.entities = Entities(app, last.highlight, last.ner_ok)

(***************************************************************************)
(* Properties of the QA engine: the context length a request carries       *)
(* (SpecQA).                                                               *)
(***************************************************************************)
\* C30: for every integer max_context_length, zero and negative ones included,
\* each text answer_from_documents hands to the extraction model, on the RAG
\* path and in the per-document fallback, is at most max(0, max_context_length)
\* characters long
C30_HandedWithinContextLength ==
    AFDReturned =>
        \A j \in 1..Len(last.calls) :
            StrLen(last.calls[j]) <= Max(0, last.max_context_length)
====
